---- MODULE Spec2Model ----
(***************************************************************************)
(* hive-cli sandbox core: the symlink overlay of a base repository         *)
(* (libs/sandbox_utils/overlay.py) and the job loop that runs an entry     *)
(* point inside a disposable session directory (hive_cli/libs/main.py).    *)
(*                                                                         *)
(* A path is the sequence of its components, i.e. exactly what             *)
(* rel_path.split(os.sep) returns: "./a/b" is <<".", "a", "b">>, "/a" is   *)
(* <<"", "a">>, "a//b" is <<"a", "", "b">> and "" is <<"">>.               *)
(***************************************************************************)
EXTENDS Naturals, Sequences, FiniteSets, TLC

\* ------------------------------------------------------------------ bounds
\* Entry names that occur in the base repository.
Names == {"a", "b"}
\* Depth of the base repository tree.
BaseDepth == 2
\* Largest number of target paths handed to mirror_overlay on its own.
MaxTargets == 2
\* Largest number of entries of a file_content_map.
MaxEntries == 2
\* Content of every file of the base repository before any call.
BaseContent == "c0"
\* Contents a caller may put in a file_content_map.
Contents == {"x", "y"}
\* The relative paths callers pass: one or two of each shape the code tells
\* apart (plain, below a directory, with ".", with a cancelling "..", with an
\* escaping "..", with a leading separator).
RelPaths ==
  { <<"a">>, <<"b">>, <<"a", "a">>, <<"a", "b">>,
    <<".", "a">>, <<".", "a", "b">>, <<"a", ".", "b">>,
    <<"a", "..", "b">>, <<"..", "a">>, <<"", "a">> }

\* ------------------------------------------------------- filesystem nodes
NoKids == [n \in {} |-> n]
None == [kind |-> "none", content |-> "", kids |-> NoKids, target |-> <<>>]
File(c) == [kind |-> "file", content |-> c, kids |-> NoKids, target |-> <<>>]
Dir(k) == [kind |-> "dir", content |-> "", kids |-> k, target |-> <<>>]
\* A symlink of the overlay: os.symlink(base_item, overlay_item); t is the
\* path of base_item below base_dir.
Link(t) == [kind |-> "link", content |-> "", kids |-> NoKids, target |-> t]
\* An entry that is no regular file, directory or symlink: a fifo, a socket.
Special == [kind |-> "special", content |-> "", kids |-> NoKids,
            target |-> <<>>]

RECURSIVE Trees(_)
\* Every file or directory that reaches at most d levels down, itself counted.
Trees(d) ==
  IF d = 1 THEN {File(BaseContent)}
  ELSE {File(BaseContent)} \cup
       UNION { { Dir(k) : k \in [S -> Trees(d - 1)] } : S \in SUBSET Names }

\* Every base repository: a directory holding files and directories down to
\* BaseDepth levels (the entries of the last level are files).
BaseTrees ==
  UNION { { Dir(k) : k \in [S -> Trees(BaseDepth)] } : S \in SUBSET Names }

RECURSIVE Get(_, _)
\* The entry at path p below node (symlinks not followed), None when absent.
Get(node, p) ==
  IF p = <<>> THEN node
  ELSE IF node.kind = "dir" /\ Head(p) \in DOMAIN node.kids
       THEN Get(node.kids[Head(p)], Tail(p))
       ELSE None

RECURSIVE Put(_, _, _)
\* node with the entry at path p set to new.
Put(node, p, new) ==
  IF p = <<>> THEN new
  ELSE LET h == Head(p)
           old == IF h \in DOMAIN node.kids THEN node.kids[h] ELSE Dir(NoKids)
       IN Dir([n \in DOMAIN node.kids \cup {h} |->
                 IF n = h THEN Put(old, Tail(p), new) ELSE node.kids[n]])

RECURSIVE Remove(_, _)
\* node without the entry at path p.
Remove(node, p) ==
  IF Len(p) = 1
  THEN Dir([n \in DOMAIN node.kids \ {Head(p)} |-> node.kids[n]])
  ELSE Dir([n \in DOMAIN node.kids |->
              IF n = Head(p) THEN Remove(node.kids[n], Tail(p))
              ELSE node.kids[n]])

Front(p) == SubSeq(p, 1, Len(p) - 1)
Last(p) == p[Len(p)]
Range(s) == { s[i] : i \in DOMAIN s }
IsPrefix(p, q) == Len(p) <= Len(q) /\ SubSeq(q, 1, Len(p)) = p
IsProperPrefix(p, q) == Len(p) < Len(q) /\ SubSeq(q, 1, Len(p)) = p

\* The two trees of a state: the base repository and the overlay directory.
Root(fs, t) == IF t = "base" THEN fs.base ELSE fs.dest

RECURSIVE Resolve(_, _, _, _)
\* The kernel's path walk: from the directory at real location (t, r), walk
\* the components p following every symlink.  kind is that of the entry
\* reached, "none" when only the last component is missing (ENOENT, the
\* parent exists), "noent" when an earlier one is, "notdir" when the walk
\* meets a regular file before its end (ENOTDIR), "loop" when it meets a
\* symlink that points to itself (ELOOP).
Resolve(fs, t, r, p) ==
  LET cur == Get(Root(fs, t), r)
  IN IF cur.kind = "link"
     THEN IF t = "base" /\ cur.target = r
          THEN [tree |-> t, path |-> r, kind |-> "loop"]
          ELSE Resolve(fs, "base", cur.target, p)
     ELSE IF p = <<>> THEN [tree |-> t, path |-> r, kind |-> cur.kind]
     ELSE IF cur.kind # "dir" THEN [tree |-> t, path |-> r, kind |-> "notdir"]
     ELSE IF Head(p) \notin DOMAIN cur.kids
          THEN [tree |-> t, path |-> r \o <<Head(p)>>,
                kind |-> IF Tail(p) = <<>> THEN "none" ELSE "noent"]
     ELSE IF cur.kids[Head(p)].kind = "link"
          THEN Resolve(fs, "base", cur.kids[Head(p)].target, Tail(p))
          ELSE Resolve(fs, t, r \o <<Head(p)>>, Tail(p))

\* Path p of the overlay directory, every symlink followed.
Stat(fs, p) == Resolve(fs, "dest", <<>>, p)

\* The entry lstat sees at path p of the overlay directory: the parent is
\* walked following symlinks, the last component is not followed.
LEntry(fs, p) ==
  IF p = <<>> THEN fs.dest
  ELSE LET par == Stat(fs, Front(p))
       IN IF par.kind = "dir"
          THEN Get(Root(fs, par.tree), par.path \o <<Last(p)>>)
          ELSE None

\* fs with the entry at real location (t, r) set to node.
WriteAt(fs, t, r, node) ==
  IF t = "base" THEN [fs EXCEPT !.base = Put(@, r, node)]
  ELSE [fs EXCEPT !.dest = Put(@, r, node)]

\* ------------------------------------------------------- mirror_overlay
\* mirror_overlay without lines 31-34: what the overlay directory holds is
\* kept (C7 tells the two apart).
KeepOverlay(dest) == dest

\* overlay.py:31-34: shutil.rmtree(overlay_dir) and os.makedirs(overlay_dir).
ClearOverlay(dest) == Dir(NoKids)

\* No target path continues through any item (C34 tells the two apart).
NoSubTargets(parts_list, item) == {}

\* The remaining parts of the target paths that continue through item.
SubTargets(parts_list, item) ==
  { Tail(parts) : parts \in { q \in parts_list : q # <<>> /\ Head(q) = item } }

RECURSIVE process_target_paths(_, _, _)
\* overlay.py:57-89.  curr is the base directory node, at is its path below
\* base_dir; the result is the overlay directory created for it.
process_target_paths(curr, at, target_parts_list) ==
  LET items_on_target_path ==
        { Head(parts) : parts \in { q \in target_parts_list : q # <<>> } }
      made == { item \in DOMAIN curr.kids :
                  item \in items_on_target_path => curr.kids[item].kind = "dir" }
  IN Dir([item \in made |->
            IF item \in items_on_target_path
            THEN process_target_paths(curr.kids[item], at \o <<item>>,
                                      SubTargets(target_parts_list, item))
            ELSE Link(at \o <<item>>)])

\* The top-level loop without line 54: the directories on a target path are
\* made and nothing else is linked (C2 tells the two apart).
MirrorTargetsOnly(base, target_parts_set) ==
  LET made == { item \in DOMAIN base.kids :
                  /\ SubTargets(target_parts_set, item) # {}
                  /\ base.kids[item].kind = "dir" }
  IN Dir([item \in made |->
            process_target_paths(base.kids[item], <<item>>,
                                 SubTargets(target_parts_set, item))])

\* overlay.py:36-54: the loop over the top level of base_dir.
MirrorTopLevel(base, target_parts_set) ==
  LET made == { item \in DOMAIN base.kids :
                  SubTargets(target_parts_set, item) # {}
                    => base.kids[item].kind = "dir" }
  IN Dir([item \in made |->
            IF SubTargets(target_parts_set, item) # {}
            THEN process_target_paths(base.kids[item], <<item>>,
                                      SubTargets(target_parts_set, item))
            ELSE Link(<<item>>)])

RECURSIVE Overlaid(_, _)
\* What the calls of os.makedirs(.., exist_ok=True) and os.symlink that build
\* plan leave when old is what the overlay directory held: os.symlink raises
\* FileExistsError on an existing entry, os.makedirs on one that is no
\* directory.
Overlaid(old, plan) ==
  IF \E n \in DOMAIN plan.kids \cap DOMAIN old.kids :
        plan.kids[n].kind = "link" \/ old.kids[n].kind # "dir"
  THEN [ok |-> FALSE, node |-> old]
  ELSE LET sub == [n \in DOMAIN plan.kids \cap DOMAIN old.kids |->
                     Overlaid(old.kids[n], plan.kids[n])]
       IN IF \E n \in DOMAIN sub : ~sub[n].ok
          THEN [ok |-> FALSE, node |-> old]
          ELSE [ok |-> TRUE,
                node |-> Dir([n \in DOMAIN plan.kids \cup DOMAIN old.kids |->
                                IF n \in DOMAIN sub THEN sub[n].node
                                ELSE IF n \in DOMAIN plan.kids THEN plan.kids[n]
                                ELSE old.kids[n]])]

\* overlay.py:11-54.  targets is the set of the relative paths, each already
\* the tuple rel_path.split(os.sep) of line 28.
mirror_overlay(fs, targets) ==
  LET built == Overlaid(ClearOverlay(fs.dest), MirrorTopLevel(fs.base, targets))
  IN [fs |-> [fs EXCEPT !.dest = built.node],
      result |-> IF built.ok THEN "ok" ELSE "OSError",
      failedAt |-> 0]


\* ------------------------------------------------- materialize_overrides
RECURSIVE NormComps(_, _, _)
\* posixpath.normpath's loop over the components: "" and "." are dropped, a
\* ".." removes the component before it, and is kept only at the front of a
\* relative path (or after another "..").
NormComps(comps, new_comps, initial_slashes) ==
  IF comps = <<>> THEN new_comps
  ELSE LET comp == Head(comps)
       IN IF comp \in {"", "."}
          THEN NormComps(Tail(comps), new_comps, initial_slashes)
          ELSE IF \/ comp # ".."
                  \/ (~initial_slashes /\ new_comps = <<>>)
                  \/ (new_comps # <<>> /\ Last(new_comps) = "..")
          THEN NormComps(Tail(comps), Append(new_comps, comp), initial_slashes)
          ELSE IF new_comps # <<>>
          THEN NormComps(Tail(comps), Front(new_comps), initial_slashes)
          ELSE NormComps(Tail(comps), new_comps, initial_slashes)

\* os.path.normpath(rel_path): abs says that the result starts with the
\* separator, comps are its components after it ("." is no component).
normpath(rel_path) ==
  LET initial_slashes == Len(rel_path) >= 2 /\ rel_path[1] = ""
  IN [abs |-> initial_slashes,
      comps |-> NormComps(rel_path, <<>>, initial_slashes)]

\* The test of lines 106-109 without its second half: only a leading
\* separator is rejected (C5 tells the two apart).
RejectedIfAbsolute(rel_path) == normpath(rel_path).abs

\* overlay.py:106-109: the test that raises ValueError.
Rejected(rel_path) ==
  normpath(rel_path).abs \/ ".." \in Range(normpath(rel_path).comps)

RECURSIVE makedirs(_, _)
\* os.makedirs(overlay_dir/p, exist_ok=True): missing directories are made
\* from the first missing one down, in whichever tree the walk has reached;
\* a regular file on the way raises before anything is made.
makedirs(fs, p) ==
  LET st == Stat(fs, p)
  IN IF st.kind = "dir" THEN [ok |-> TRUE, fs |-> fs]
     ELSE IF st.kind \in {"file", "notdir"} THEN [ok |-> FALSE, fs |-> fs]
     ELSE LET up == makedirs(fs, Front(p))
          IN IF ~up.ok THEN up
             ELSE LET par == Stat(up.fs, Front(p))
                  IN [ok |-> TRUE,
                      fs |-> WriteAt(up.fs, par.tree, par.path \o <<Last(p)>>,
                                     Dir(NoKids))]

\* os.path.islink(overlay_dir/p).
islink(fs, p) == p # <<>> /\ LEntry(fs, p).kind = "link"

\* os.unlink(overlay_dir/p) of a symlink: symlinks exist in the overlay only.
unlink(fs, p) ==
  LET par == Stat(fs, Front(p))
  IN [fs EXCEPT !.dest = Remove(@, par.path \o <<Last(p)>>)]

\* open(overlay_dir/p, "w") and f.write(content): the file is created or
\* truncated where the walk ends, a symlink at p being followed; a directory
\* at p raises IsADirectoryError.
open_write(fs, p, content) ==
  IF p = <<>> THEN [ok |-> FALSE, fs |-> fs]
  ELSE LET par == Stat(fs, Front(p))
           ent == LEntry(fs, p)
           at == IF ent.kind = "link"
                 THEN [tree |-> "base", path |-> ent.target]
                 ELSE [tree |-> par.tree, path |-> par.path \o <<Last(p)>>]
       IN IF par.kind # "dir" \/ Get(Root(fs, at.tree), at.path).kind = "dir"
          THEN [ok |-> FALSE, fs |-> fs]
          ELSE [ok |-> TRUE, fs |-> WriteAt(fs, at.tree, at.path, File(content))]

\* materialize_overrides without lines 117-119: a symlink at the path is
\* kept (C6 tells the two apart).
KeepLink(fs, p) == fs

\* overlay.py:117-119: a symlink at the path is removed before the write.
RemoveLink(fs, p) == IF islink(fs, p) THEN unlink(fs, p) ELSE fs

\* overlay.py:104-123: the body of the loop for one entry of the map.
MaterializeEntry(fs, entry) ==
  IF Rejected(entry.path) THEN [fs |-> fs, result |-> "ValueError"]
  ELSE LET full == normpath(entry.path).comps
           made == makedirs(fs, IF full = <<>> THEN <<>> ELSE Front(full))
       IN IF ~made.ok THEN [fs |-> fs, result |-> "OSError"]
          ELSE LET wr == open_write(RemoveLink(made.fs, full), full,
                                    entry.content)
               IN [fs |-> wr.fs, result |-> IF wr.ok THEN "ok" ELSE "OSError"]

RECURSIVE MaterializeFrom(_, _, _)
\* overlay.py:103: the loop over file_content_map.items(), from entry i on;
\* an exception ends it, failedAt is the entry that raised.
MaterializeFrom(fs, map, i) ==
  IF i > Len(map) THEN [fs |-> fs, result |-> "ok", failedAt |-> 0]
  ELSE LET r == MaterializeEntry(fs, map[i])
       IN IF r.result # "ok"
          THEN [fs |-> r.fs, result |-> r.result, failedAt |-> i]
          ELSE MaterializeFrom(r.fs, map, i + 1)

\* overlay.py:92-123.  map is the dict in its iteration order.
materialize_overrides(fs, map) == MaterializeFrom(fs, map, 1)

\* file_content_map.keys()
Keys(map) == { map[i].path : i \in DOMAIN map }

\* overlay.py:126-141.
mirror_overlay_and_overwrite(fs, map) ==
  LET m == mirror_overlay(fs, Keys(map))
  IN IF m.result # "ok" THEN m ELSE materialize_overrides(m.fs, map)

\* --------------------------------------- mirror_with_symlink_exceptions
\* The name of the directory repo_dir.
RepoName == "repo"
\* overlay.py:169: the names always skipped (the ones the model's trees hold).
default_skips == {".git"}
\* The sets of names a caller may pass as skip_names.
SkipNameSets == { {}, {"b"}, {RepoName} }
\* The orders in which iterdir may list the entries of a directory.
Orders == { <<"a", "b", ".git">>, <<"b", "a", ".git">> }

\* A regular expression of symlink_patterns: "^a/b$" is Exact(<<"a", "b">>),
\* "b" is Contains("b"), ".*" is AnyPath.
Exact(path) == [kind |-> "exact", path |-> path, name |-> ""]
Contains(name) == [kind |-> "contains", path |-> <<>>, name |-> name]
AnyPath == [kind |-> "any", path |-> <<>>, name |-> ""]
\* The lists of patterns a caller may pass.
PatternSets ==
  { {}, {Exact(<<"a">>)}, {Exact(<<"b">>)}, {Exact(<<"a", "b">>)},
    {Contains("b")}, {Contains(".git")}, {AnyPath},
    {Exact(<<"a">>), Exact(<<"b">>)} }

\* The entries repo_dir may hold at a, at b and at .git (None: no entry).
RepoA ==
  { None, File(BaseContent), Dir(NoKids),
    Dir([n \in {"a"} |-> File(BaseContent)]),
    Dir([n \in {"b"} |-> File(BaseContent)]),
    Dir([n \in {"a", "b"} |-> File(BaseContent)]),
    Dir([n \in {"b"} |-> Link(<<"b">>)]),
    Dir([n \in {"b"} |-> Special]),
    Dir([n \in {"a", ".git"} |-> File(BaseContent)]) }
RepoB ==
  { None, File(BaseContent), Link(<<"a">>), Special,
    Dir([n \in {"a"} |-> File(BaseContent)]) }
RepoGit == { None, Dir([n \in {"a"} |-> File(BaseContent)]) }

\* Every source repository of mirror_with_symlink_exceptions: regular
\* files, directories, symlinks to entries of the repository (some of them
\* dangling), special files and skipped names.
RepoTrees ==
  { Dir([n \in { m \in {"a", "b", ".git"} :
                   (IF m = "a" THEN a ELSE IF m = "b" THEN b ELSE g) # None }
           |-> IF n = "a" THEN a ELSE IF n = "b" THEN b ELSE g]) :
      a \in RepoA, b \in RepoB, g \in RepoGit }

\* The name of the entry alone, in place of its path (C25 tells the two
\* apart).
name_only(p) == IF p = <<>> THEN <<".">> ELSE <<Last(p)>>

\* overlay.py:173-174: p.relative_to(repo).as_posix(); the root is ".".
rel_posix(p) == IF p = <<>> THEN <<".">> ELSE p

\* overlay.py:164-167 and 176-177: combined_re.search(rel_posix(p)).
should_symlink(patterns, p) ==
  \E pat \in patterns :
    CASE pat.kind = "exact" -> pat.path = rel_posix(p)
      [] pat.kind = "contains" -> pat.name \in Range(rel_posix(p))
      [] OTHER -> TRUE

\* Path(dir).resolve() of repo_dir or dest_dir (t says which): the real
\* place of the directory.
resolve_root(fs, t) == Resolve(fs, t, <<>>, <<>>)

\* The real place of the entry dst = dest / p, dest being the resolved
\* directory d: the parent is walked following symlinks, the last component
\* is not followed.
EntryLoc(fs, d, p) ==
  IF p = <<>> THEN [ok |-> TRUE, tree |-> d.tree, path |-> d.path]
  ELSE LET par == Resolve(fs, d.tree, d.path, Front(p))
       IN [ok |-> par.kind = "dir", tree |-> par.tree,
           path |-> par.path \o <<Last(p)>>]

\* What lstat sees at a real place.
NodeAt(fs, loc) == Get(Root(fs, loc.tree), loc.path)

\* overlay.py:184-193: whatever is at dst (a real directory with all it
\* holds, a file, a symlink) is removed and a symlink to target is made.
link_path(fs, target, d, p) ==
  LET loc == EntryLoc(fs, d, p)
  IN IF ~loc.ok THEN [fs |-> fs, result |-> "OSError"]
     ELSE [fs |-> WriteAt(fs, loc.tree, loc.path, Link(target)),
           result |-> "ok"]

\* overlay.py:210: dst.mkdir(parents=True, exist_ok=True) below a parent
\* that is a directory: a directory at dst, or a symlink to one, is left as
\* it is; any other entry raises FileExistsError.
mkdir_exist_ok(fs, d, p) ==
  LET loc == EntryLoc(fs, d, p)
  IN IF ~loc.ok THEN [fs |-> fs, result |-> "OSError"]
     ELSE IF Resolve(fs, loc.tree, loc.path, <<>>).kind = "dir"
          THEN [fs |-> fs, result |-> "ok"]
     ELSE IF NodeAt(fs, loc).kind = "none"
          THEN [fs |-> WriteAt(fs, loc.tree, loc.path, Dir(NoKids)),
                result |-> "ok"]
     ELSE [fs |-> fs, result |-> "OSError"]

\* overlay.py:179-182: shutil.copy2(src, dst) for the regular file src at p.
\* A directory at dst (or a symlink to one) makes the copy go inside it
\* under the name of src; the file is then written where the walk ends, a
\* symlink being followed; src and dst being one file raises SameFileError.
copy_file(fs, d, p) ==
  LET at == Resolve(fs, d.tree, d.path, p)
      st == IF at.kind = "dir"
            THEN Resolve(fs, at.tree, at.path, <<Last(p)>>) ELSE at
  IN IF st.kind = "file" /\ st.tree = "base" /\ st.path = p
     THEN [fs |-> fs, result |-> "SameFileError"]
     ELSE IF st.kind \in {"file", "none"}
     THEN [fs |-> WriteAt(fs, st.tree, st.path,
                          File(Get(fs.base, p).content)),
           result |-> "ok"]
     ELSE [fs |-> fs, result |-> "OSError"]

\* The entries of names that come in order.
InOrder(names, order) == SelectSeq(order, LAMBDA n : n \in names)

RECURSIVE mirror_node(_, _, _, _, _, _)
RECURSIVE MirrorChildren(_, _, _, _, _, _, _)
\* overlay.py:211-212: the loop over the children of the directory at p,
\* from the first of names on; an exception ends it.
MirrorChildren(fs, d, p, names, patterns, skips, order) ==
  IF names = <<>> THEN [fs |-> fs, result |-> "ok"]
  ELSE LET r == mirror_node(fs, d, p \o <<Head(names)>>, patterns, skips,
                            order)
       IN IF r.result # "ok" THEN r
          ELSE MirrorChildren(r.fs, d, p, Tail(names), patterns, skips, order)

\* overlay.py:195-217: src is the entry at p of the repository, dst the
\* entry at p below the resolved destination d.
mirror_node(fs, d, p, patterns, skips, order) ==
  LET src == Get(fs.base, p)
      name == IF p = <<>> THEN RepoName ELSE Last(p)
  IN IF name \in default_skips \cup skips THEN [fs |-> fs, result |-> "ok"]
     ELSE IF should_symlink(patterns, p) THEN link_path(fs, p, d, p)
     ELSE IF src.kind = "link"
          THEN IF Resolve(fs, "base", p, <<>>).kind = "loop"
               THEN [fs |-> fs, result |-> "OSError"]
               ELSE link_path(fs, Resolve(fs, "base", p, <<>>).path, d, p)
     ELSE IF src.kind = "dir"
          THEN LET made == mkdir_exist_ok(fs, d, p)
               IN IF made.result # "ok" THEN made
                  ELSE MirrorChildren(made.fs, d, p,
                                      InOrder(DOMAIN src.kids, order),
                                      patterns, skips, order)
     ELSE IF src.kind = "file" THEN copy_file(fs, d, p)
     ELSE [fs |-> fs, result |-> "ok"]

\* overlay.py:145-219.  repo_dir and dest_dir are resolved first; a
\* directory that cannot be resolved, or a repo_dir that is no directory,
\* ends the call.
mirror_with_symlink_exceptions(fs, patterns, skip_names, order) ==
  LET repo == resolve_root(fs, "base")
      dest == resolve_root(fs, "dest")
  IN IF repo.kind # "dir" \/ dest.kind # "dir"
     THEN [fs |-> fs, result |-> "OSError"]
     ELSE mirror_node(fs, dest, <<>>, patterns, skip_names, order)

\* ------------------------------------------------- apply_code_overlays
RECURSIVE mkdir_parents(_, _, _)
\* overlay.py:230: dst.parent.mkdir(parents=True, exist_ok=True) for the
\* directory at p below d: missing directories are made from the first
\* missing one down, wherever the walk has led.
mkdir_parents(fs, d, p) ==
  IF p = <<>> THEN [fs |-> fs, result |-> "ok"]
  ELSE LET up == mkdir_parents(fs, d, Front(p))
       IN IF up.result # "ok" THEN up ELSE mkdir_exist_ok(up.fs, d, p)

\* overlay.py:231-236: a symlink at dst is unlinked, a directory at dst is
\* removed with all it holds, and the file is written there.
replace_and_write(fs, loc, content) ==
  IF NodeAt(fs, loc).kind = "special"
  THEN [fs |-> fs, result |-> "OSError"]
  ELSE [fs |-> WriteAt(fs, loc.tree, loc.path, File(content)),
        result |-> "ok"]

\* overlay.py:228-236: the body of the loop for one entry of code_files.
ApplyEntry(fs, d, entry) ==
  LET made == mkdir_parents(fs, d, Front(entry.path))
      loc == EntryLoc(made.fs, d, entry.path)
  IN IF made.result # "ok" THEN made
     ELSE IF ~loc.ok THEN [fs |-> made.fs, result |-> "OSError"]
     ELSE replace_and_write(made.fs, loc, entry.content)

RECURSIVE ApplyFrom(_, _, _, _)
\* overlay.py:228: the loop over code_files.items(), from entry i on.
ApplyFrom(fs, d, code_files, i) ==
  IF i > Len(code_files) THEN [fs |-> fs, result |-> "ok", failedAt |-> 0]
  ELSE LET r == ApplyEntry(fs, d, code_files[i])
       IN IF r.result # "ok"
          THEN [fs |-> r.fs, result |-> r.result, failedAt |-> i]
          ELSE ApplyFrom(r.fs, d, code_files, i + 1)

\* overlay.py:222-236.
apply_code_overlays(fs, code_files) ==
  LET dest == resolve_root(fs, "dest")
  IN IF dest.kind # "dir"
     THEN [fs |-> fs, result |-> "OSError", failedAt |-> 1]
     ELSE ApplyFrom(fs, dest, code_files, 1)

\* ------------------------------------------------------------ completers
\* completers.py:42 and 101: the two completers that ask Kubernetes.
Completers == {"experiment_completer", "sandbox_completer"}
\* A resource name is the sequence of its characters.
ResourceNames == { <<"e", "1">>, <<"e", "2">>, <<"s", "1">> }
\* The prefixes argcomplete may pass.
Prefixes == { <<>>, <<"e">> }
\* The lists of names the Kubernetes API may answer with.
NameLists ==
  { <<>> } \cup { <<n>> : n \in ResourceNames }
           \cup { <<"e", "1">> } \X { <<"s", "1">> }
\* The exceptions load_config may raise (config.py:181-183): the file is
\* missing, or its content is no valid configuration.
ConfigErrors == {"FileNotFoundError", "ValidationError"}
\* The exception K8sPlatform(None, config.token_path) raises when the class
\* takes no arguments (platform/k8s.py:9).
PlatformErrors == {"TypeError"}
\* The exceptions the Kubernetes API call may raise; the TimeoutError of
\* the standard library is one of them.
ApiErrors == {"ApiException", "builtins.TimeoutError"}
\* completers.py:32-34: the module's own class TimeoutError(Exception).
CompleterTimeout == "completers.TimeoutError"
\* The exception classes that derive from Exception.
ExceptionClasses ==
  ConfigErrors \cup PlatformErrors \cup ApiErrors \cup {CompleterTimeout}

\* An except clause that catches no class (C29 tells the two apart).
catches_nothing(e) == FALSE

\* completers.py:26: except Exception.
safe_completer_catches(e) == e \in ExceptionClasses

\* completers.py:93 and 156: except TimeoutError, the module's class.
completer_catches(e) == e = CompleterTimeout

\* completers.py:88-89 and 151-152: the names that start with the prefix,
\* all of them when the prefix is empty.
filter_prefix(names, prefix) ==
  IF prefix = <<>> THEN names
  ELSE SelectSeq(names, LAMBDA n : IsPrefix(prefix, n))

\* No completer has been called.
NoCompletion ==
  [pc |-> "idle", completer |-> "", prefix |-> <<>>, alarm |-> FALSE,
   handler |-> "SIG_DFL", names |-> <<>>, pending |-> "none",
   timed_out |-> FALSE, failed |-> "none", value |-> <<>>,
   raised |-> "none"]

\* ---------------------------------------------------------- get_codebase
\* A source is the sequence of the pieces of its text, every occurrence of
\* "https://" being a piece of its own.
Scheme == "https://"
Sources ==
  { <<Scheme, "github.com/org/repo.git">>,
    <<Scheme, "host/repo?mirror=", Scheme, "other/repo">>,
    <<"HTTPS://", "github.com/org/repo.git">>,
    <<"/srv/repo">> }
\* os.getenv("GITHUB_TOKEN"): unset, set to the empty string, set to a
\* token.
Tokens ==
  { [set |-> FALSE, value |-> ""], [set |-> TRUE, value |-> ""],
    [set |-> TRUE, value |-> "SECRET123"] }
Branches == {"main", "develop", "gone"}
\* Number of characters of a commit hash.
ShaLen == 40
\* git.py:58: the number of characters get_codebase keeps of the hash of a
\* clone; git.py:84: the length of the random identifier.
ShortLen == 7
\* The commit hash that starts with x and ends with y.
Sha(x, y) ==
  [i \in 1..ShaLen |-> IF i = 1 THEN x ELSE IF i = ShaLen THEN y ELSE "0"]
Hexshas == { Sha("a", "1"), Sha("a", "2"), Sha("b", "1") }
\* The identifiers random.choices may draw.
RandomIds ==
  { [i \in 1..ShortLen |-> "z"], [i \in 1..ShortLen |-> "9"] }
\* What lies outside the call: the remote repository (whether it can be
\* cloned, the commit at the tip of each of its branches), what reading
\* repo.head.commit of the clone does (it gives the commit, or raises the
\* ValueError of GitPython for a HEAD without commit, or the RuntimeError
\* of the double in tests/utils/test_git.py:19-25), the directory dest
\* (absent, empty, nonempty, or a file), and what a local source path is
\* (missing, a file, a plain directory, a git repository and the commit of
\* its HEAD, <<>> when it has no commit).
Worlds ==
  [reachable : BOOLEAN,
   tips : { [b \in {"main", "develop"} |->
               IF b = "main" THEN Sha("a", "1") ELSE Sha("a", "2")],
            [b \in {"main", "develop"} |->
               IF b = "main" THEN Sha("b", "1") ELSE Sha("a", "1")] },
   clone_head : {"commit", "ValueError", "RuntimeError"},
   dest : {"absent", "empty", "nonempty", "file"},
   local : {"missing", "file", "plain", "git"},
   head : Hexshas \cup { <<>> }]

\* The message of an exception is the sequence of the pieces of its text.
\* What GitPython says of a HEAD without commit, what the double of the
\* tests says, and what a failed git command says.
UnbornHeadMessage(branch) ==
  <<"Reference at 'refs/heads/", branch, "' does not exist">>
DoubleMessage == <<"no commit">>
GitCommandMessage == <<"Cmd('git') failed">>

\* The message reading repo.head.commit raises with in world w.
head_message(w, branch) ==
  IF w.clone_head = "ValueError" THEN UnbornHeadMessage(branch)
  ELSE DoubleMessage

\* source.startswith("https://") (git.py:16 and 52).
startswith_https(source) == source # <<>> /\ Head(source) = Scheme

\* git.py:20-22: repo_dir.replace("https://",
\* f"https://x-access-token:{token}@"), every occurrence.
inject_token(repo_dir, token) ==
  [i \in DOMAIN repo_dir |->
     IF repo_dir[i] = Scheme THEN <<Scheme, "x-access-token:", token, "@">>
     ELSE <<repo_dir[i]>>]

\* The url as it is, in the shape inject_token gives.
no_token(repo_dir) == [i \in DOMAIN repo_dir |-> <<repo_dir[i]>>]

\* code_version_id[:7] (git.py:58).
short(hexsha) ==
  SubSeq(hexsha, 1, IF Len(hexsha) < ShortLen THEN Len(hexsha) ELSE ShortLen)

\* How a call ends: by a return of value or by the exception how with
\* message; url is what clone_from got, dest what the directory dest then
\* is, checked_out the branch checked out.
Outcome(how, value, message, url, dest, checked_out) ==
  [how |-> how, value |-> value, message |-> message, url |-> url,
   dest |-> dest, checked_out |-> checked_out]

\* git.py:12-36.  No statement of clone_repo handles an exception, so what
\* clone_from, checkout or repo.head.commit raises leaves it as it is.
clone_repo(repo_dir, token, branch, w) ==
  LET made == IF w.dest = "absent" THEN "empty" ELSE w.dest
      url == IF token.set /\ token.value # ""
             THEN inject_token(repo_dir, token.value)
             ELSE no_token(repo_dir)
  IN IF w.dest = "file"
     THEN Outcome("FileExistsError", <<>>, <<"File exists">>, <<>>, "file",
                  "")
     ELSE IF startswith_https(repo_dir)
     THEN IF ~w.reachable \/ made = "nonempty"
          THEN Outcome("GitCommandError", <<>>, GitCommandMessage, url, made,
                       "")
          ELSE IF branch \notin DOMAIN w.tips
          THEN Outcome("GitCommandError", <<>>, GitCommandMessage, url,
                       "cloned", "")
          ELSE IF w.clone_head # "commit"
          THEN Outcome(w.clone_head, <<>>, head_message(w, branch), url,
                       "cloned", branch)
          ELSE Outcome("return", w.tips[branch], <<>>, url, "cloned", branch)
     ELSE IF w.local = "missing"
          THEN Outcome("FileNotFoundError", <<>>,
                       <<"Repository directory ">> \o repo_dir
                         \o <<" does not exist">>, <<>>, made, "")
     ELSE IF w.local = "file"
          THEN Outcome("NotADirectoryError", <<>>,
                       repo_dir \o <<" is not a directory">>, <<>>, made, "")
     ELSE IF w.local = "plain"
          THEN Outcome("InvalidGitRepositoryError", <<>>, <<>>, <<>>,
                       "copied", "")
     ELSE IF w.head = <<>>
          THEN Outcome("ValueError", <<>>, UnbornHeadMessage("main"), <<>>,
                       "copied", "")
     ELSE Outcome("return", w.head, <<>>, <<>>, "copied", "")

\* git.py:39-85; random_id is what random.choices draws.  get_codebase
\* handles no exception either.
get_codebase(source, token, branch, w, random_id) ==
  IF startswith_https(source)
  THEN LET cloned == clone_repo(source, token, branch, w)
       IN IF cloned.how # "return" THEN cloned
          ELSE [cloned EXCEPT !.value = short(cloned.value)]
  ELSE IF w.local = "missing"
       THEN Outcome("FileNotFoundError", <<>>,
                    <<"Source path ">> \o source \o <<" does not exist">>,
                    <<>>, w.dest, "")
  ELSE IF w.local = "file"
       THEN Outcome("NotADirectoryError", <<>>,
                    <<"Source path ">> \o source
                      \o <<" is not a directory">>, <<>>, w.dest, "")
  ELSE IF w.dest = "file"
       THEN Outcome("FileExistsError", <<>>, <<"File exists">>, <<>>, "file",
                    "")
  ELSE IF w.local = "plain"
       THEN Outcome("return", random_id, <<>>, <<>>, "copied", "")
  ELSE IF w.head = <<>>
       THEN Outcome("ValueError", <<>>, UnbornHeadMessage("main"), <<>>,
                    "copied", "")
  ELSE Outcome("return", w.head, <<>>, <<>>, "copied", "")

\* get_codebase has not been called.
NoCodebase ==
  [called |-> FALSE, source |-> <<>>, token |-> [set |-> FALSE, value |-> ""],
   branch |-> "",
   world |-> [reachable |-> FALSE, tips |-> <<>>, clone_head |-> "commit",
              dest |-> "absent", local |-> "missing", head |-> <<>>],
   how |-> "none", value |-> <<>>, message |-> <<>>,
   url |-> <<>>, dest |-> "", checked_out |-> ""]

\* ---------------------------------------------------------------- Runtime
\* A name is the sequence of its characters.  The characters names are made
\* of: a lowercase letter, an uppercase letter, an uppercase letter outside
\* ASCII, a digit and the dash.
NameChars == {"a", "B", "É", "1", "-"}
\* Largest length of a name.
MaxNameLen == 3
\* The names a caller may pass as exp_name; the empty name is one of them.
ExpNames == UNION { [1..n -> NameChars] : n \in 0..MaxNameLen }
\* What datetime.now(timezone.utc).timestamp() may give, in seconds.
Timestamps == {1700000000, 1700000001}
\* runtime.py:32: the number of characters kept of the digest.
DigestPrefixLen == 7

\* c.isupper() (runtime.py:24).
isupper(c) == c \in {"B", "É"}

\* runtime.py:32: hashlib.sha1(timestamp.encode()).hexdigest()[:7], seven
\* hexadecimal digits that differ from one second to the next.
unique_hash(timestamp) ==
  [i \in 1..DigestPrefixLen |->
     IF i < DigestPrefixLen THEN "0"
     ELSE IF timestamp = 1700000000 THEN "c" ELSE "d"]

\* A name returned, or the exception raised.
Named(text) == [how |-> "return", none |-> FALSE, text |-> text]
NoName == [how |-> "return", none |-> TRUE, text |-> <<>>]
NameError(e) == [how |-> e, none |-> TRUE, text |-> <<>>]

\* The name as it is, whatever it holds (C32 tells the two apart).
name_as_given(base_name, timestamp) == Named(base_name)

\* runtime.py:18-35.
generate_experiment_name(base_name, timestamp) ==
  IF \E i \in DOMAIN base_name : isupper(base_name[i])
  THEN NameError("ValueError")
  ELSE IF base_name # <<>> /\ base_name[Len(base_name)] = "-"
       THEN Named(base_name \o unique_hash(timestamp))
       ELSE Named(base_name)

\* runtime.py:6-15: Runtime(exp_name); given is false when exp_name is left
\* out (None).  self.experiment_name is None when exp_name is None or empty.
Runtime_init(given, exp_name, timestamp) ==
  IF ~given \/ exp_name = <<>> THEN NoName
  ELSE generate_experiment_name(exp_name, timestamp)

\* No Runtime has been made.
NoRuntime ==
  [made |-> FALSE, given |-> FALSE, exp_name |-> <<>>, timestamp |-> 0,
   how |-> "none", none |-> TRUE, text |-> <<>>]

\* ------------------------------------------------- the fields of a job
\* A value of a JSON message as Python holds it: None, an int, a float (the
\* fraction num/den), or a string that spells an integer, spells a decimal
\* number or spells no number.
Value(t, num, den) == [t |-> t, num |-> num, den |-> den]
PyNone == Value("null", 0, 1)
\* The exception a conversion raises.
Raises(e) == Value(e, 0, 1)
\* A key of a message with its value, and a key the message lacks.
Given(v) == [given |-> TRUE, value |-> v]
Missing(v) == [given |-> FALSE, value |-> v]

\* What a coordinator may send as timeout and as memory_limit: 64, 2.5,
\* "64", "2.5", "soon", null, or nothing.
Numbers ==
  { Value("int", 64, 1), Value("float", 5, 2), Value("str_int", 64, 1),
    Value("str_float", 5, 2), Value("str_word", 0, 1) }
NumberFields == { Given(v) : v \in Numbers \cup {PyNone} } \cup {Missing(PyNone)}
\* What it may send as args and as evaluation_script.
ArgsFields == { Given(<<>>), Given(<<"a", "1">>), Missing(<<>>) }
ScriptFields == { Given(<<"a">>), Given(<<"a", "b">>), Missing(<<>>) }
\* The run messages.
RunMessages ==
  [timeout : NumberFields, memory_limit : NumberFields, args : ArgsFields,
   evaluation_script : ScriptFields]

\* dict.get(key, default).
get(field, default) == IF field.given THEN field.value ELSE default

\* float(x): TypeError for None, ValueError for a string that spells no
\* number.
float(x) ==
  CASE x.t = "null" -> Raises("TypeError")
    [] x.t = "str_word" -> Raises("ValueError")
    [] OTHER -> Value("float", x.num, x.den)

\* The value handed on unconverted (C36 tells the two apart).
as_given(x) == x

\* int(x): a float is truncated; ValueError for a string that spells no
\* integer.
int(x) ==
  CASE x.t = "null" -> Raises("TypeError")
    [] x.t \in {"str_word", "str_float"} -> Raises("ValueError")
    [] OTHER -> Value("int", x.num \div x.den, 1)

\* The arguments of a call of execute_python_function, or the exception
\* raised before it.
JobFields(how, timeout, memory_limit, args, evaluation_script) ==
  [how |-> how, timeout |-> timeout, memory_limit |-> memory_limit,
   args |-> args, evaluation_script |-> evaluation_script]

\* main.py:120-130: the fields main_loop takes from a run message, in the
\* order of the statements.
job_fields(message) ==
  LET timeout == float(get(message.timeout, PyNone))
      limit == get(message.memory_limit, PyNone)
      memory_limit == IF limit # PyNone THEN int(limit) ELSE limit
      args == get(message.args, <<>>)
      evaluation_script == get(message.evaluation_script, <<"evaluator.py">>)
  IN IF timeout.t \in {"TypeError", "ValueError"}
     THEN JobFields(timeout.t, PyNone, PyNone, <<>>, <<>>)
     ELSE IF memory_limit.t \in {"TypeError", "ValueError"}
     THEN JobFields(memory_limit.t, PyNone, PyNone, <<>>, <<>>)
     ELSE JobFields("called", timeout, memory_limit, args, evaluation_script)

\* No run message has been taken apart.
NoTaken ==
  [done |-> FALSE,
   message |-> [timeout |-> Missing(PyNone), memory_limit |-> Missing(PyNone),
                args |-> Missing(<<>>), evaluation_script |-> Missing(<<>>)],
   fields |-> JobFields("none", PyNone, PyNone, <<>>, <<>>)]

\* ------------------------------------------------------------ the job loop
\* The entry points a run message may name.
EvaluationScripts == { <<"a">>, <<"a", "b">>, <<".", "a">> }
\* The names tempfile.TemporaryDirectory(dir=".") may give a session
\* directory.
SessionNames == {"tmp1", "tmp2"}
\* Largest number of failed attempts of one send_to_server call.
MaxAttempts == 1
\* common_tools.py:34-38: run_command takes cmd, cwd and timeout.
RunCommandParams == 3
\* main.py:79-81: the positional arguments of the call that runs the entry
\* point, and main.py:89: those of the call that reads the checkpoint.
RunArgs == 4
CheckpointArgs == 2

\* What the process of an entry point can do: how it ends, the lines it has
\* printed by then ("" is a line of white space only), and the file
\* checkpoint.json it has left at the session root, if any.
Exits == {"zero", "nonzero", "signal", "timeout"}
Stdouts == { <<>>, <<"l1">>, <<"l1", "l2">>, <<"l1", "">> }
NoCheckpoint == [exists |-> FALSE, lines |-> <<>>]
Checkpoints ==
  {NoCheckpoint} \cup
  { [exists |-> TRUE, lines |-> k] : k \in { <<>>, <<"k1">>, <<"k1", "k2">> } }
Procs == [exit : Exits, stdout : Stdouts, checkpoint : Checkpoints]
NoProc == [exit |-> "none", stdout |-> <<>>, checkpoint |-> NoCheckpoint]
\* An entry point that prints one line and exits with status zero.
OneLineProc == [exit |-> "zero", stdout |-> <<"l1">>, checkpoint |-> NoCheckpoint]

\* The exceptions open() raises for a path that names no readable file.
ReadErrors == {"FileNotFoundError", "IsADirectoryError", "NotADirectoryError"}

\* How execute_python_function can end so that main_loop goes on to report a
\* result (main.py:128-142); every other exception leaves main_loop.
Reported == {"return", "checkpoint", "FunctionExecutionError"}

\* main.py:71-72: open(os.path.join(REPO_DIR, evaluation_script)) and
\* f.read().  The kernel's walk passes over the "." components.
open_read(fs, evaluation_script) ==
  LET st == Resolve(fs, "base", <<>>,
                    SelectSeq(evaluation_script, LAMBDA c : c # "."))
  IN IF st.kind = "file"
     THEN [ok |-> TRUE, content |-> Get(fs.base, st.path).content,
           error |-> "none"]
     ELSE [ok |-> FALSE, content |-> "",
           error |-> CASE st.kind = "dir" -> "IsADirectoryError"
                       [] st.kind = "notdir" -> "NotADirectoryError"
                       [] OTHER -> "FileNotFoundError"]

\* dict.setdefault in place of the assignment of line 73: the entry is added
\* only when the key is absent (C10 tells the two apart).
InjectIfAbsent(code_files, key, content) ==
  IF \E i \in DOMAIN code_files : code_files[i].path = key
  THEN code_files
  ELSE Append(code_files, [path |-> key, content |-> content])

\* main.py:73: code_files[evaluation_script] = evaluation_script_content.  A
\* dict keeps the place of a key it holds and puts a new key last.
Inject(code_files, key, content) ==
  IF \E i \in DOMAIN code_files : code_files[i].path = key
  THEN [i \in DOMAIN code_files |->
          IF code_files[i].path = key
          THEN [path |-> key, content |-> content]
          ELSE code_files[i]]
  ELSE Append(code_files, [path |-> key, content |-> content])

\* How a call ended: by a return of output or by raising the exception how
\* with the text message.
Ended(how, output, message) ==
  [how |-> how, output |-> output, message |-> message]

RECURSIVE lstrip(_)
\* The lines left when the white space that begins the text is removed.
lstrip(lines) ==
  IF lines # <<>> /\ Head(lines) = "" THEN lstrip(Tail(lines)) ELSE lines

RECURSIVE rstrip(_)
\* The lines left when the white space that ends the text is removed.
rstrip(lines) ==
  IF lines # <<>> /\ Last(lines) = "" THEN rstrip(Front(lines)) ELSE lines

\* common_tools.py:56: stdout.strip().splitlines().
strip_splitlines(stdout) == rstrip(lstrip(stdout))

\* common_tools.py:34-59 called with nargs positional arguments for a
\* process that ends as exit says with stdout printed.  Python raises
\* TypeError for more arguments than parameters, before the body runs; the
\* subscript of line 56 raises IndexError on an empty list.  output is the
\* string returned, message the text of the exception raised.
run_command(nargs, exit, stdout) ==
  IF nargs > RunCommandParams THEN Ended("TypeError", "", <<>>)
  ELSE IF exit = "timeout"
       THEN Ended("FunctionExecutionError", "", <<"Timeout">>)
  ELSE IF exit = "signal"
       THEN Ended("FunctionExecutionError", "", <<"Terminated by signal">>)
  ELSE IF exit = "nonzero"
       THEN Ended("FunctionExecutionError", "", <<"Error: stderr">>)
  ELSE IF strip_splitlines(stdout) = <<>>
       THEN Ended("IndexError", "", <<>>)
  ELSE Ended("return", Last(strip_splitlines(stdout)), <<>>)

\* The process of cat checkpoint.json in the session directory: it prints
\* the file and exits with status zero, or exits with status one when there
\* is no such file.
cat(checkpoint) ==
  [exit |-> IF checkpoint.exists THEN "zero" ELSE "nonzero",
   stdout |-> checkpoint.lines]

\* main.py:78-97: the entry point is run; after a FunctionExecutionError the
\* checkpoint is read, and a second FunctionExecutionError raises the first
\* one again under a new message.
RunEntryPoint(p) ==
  LET first == run_command(RunArgs, p.exit, p.stdout)
      second == run_command(CheckpointArgs, cat(p.checkpoint).exit,
                            cat(p.checkpoint).stdout)
  IN IF first.how # "FunctionExecutionError" THEN first
     ELSE IF second.how = "return"
          THEN Ended("checkpoint", second.output, <<>>)
     ELSE IF second.how = "FunctionExecutionError"
          THEN Ended("FunctionExecutionError", "",
                     <<"Execution failed">> \o first.message)
     ELSE second

\* main.py:75-97: the overlay is built from the dict and the entry point is
\* run.  map is the dict handed to the overlay, overlay says how
\* mirror_overlay_and_overwrite ended, ended how the body ended.
BuildAndRun(fs, code_files, p) ==
  LET ov == mirror_overlay_and_overwrite(fs, code_files)
  IN [fs |-> ov.fs, map |-> code_files, overlay |-> ov.result,
      failedAt |-> ov.failedAt,
      ended |-> IF ov.result = "ok" THEN RunEntryPoint(p)
                ELSE Ended(ov.result, "", <<>>)]

\* main.py:68-97, the body of the with statement, for an entry point whose
\* process behaves as p says.
execute_python_function(fs, code_files, evaluation_script, p) ==
  LET rd == open_read(fs, evaluation_script)
  IN IF rd.ok
     THEN BuildAndRun(fs, Inject(code_files, evaluation_script, rd.content), p)
     ELSE [fs |-> fs, map |-> code_files, overlay |-> "notcalled",
           failedAt |-> 0, ended |-> Ended(rd.error, "", <<>>)]

\* A removal placed after the body instead of the with statement: the
\* session directory is removed only when the body returns (C8 tells the two
\* apart).
CleanupOnReturn(dirs, dir, how) ==
  IF how \in {"return", "checkpoint"} THEN dirs \ {dir} ELSE dirs

\* tempfile.mkdtemp in place of TemporaryDirectory: the session directory is
\* never removed (C9 tells the two apart).
KeepSession(dirs, dir, how) == dirs

\* main.py:67: TemporaryDirectory.__exit__ removes the directory however the
\* body ended.
Cleanup(dirs, dir, how) == dirs \ {dir}

\* The messages of the coordinator that main_loop tells apart.
NoResponse == [action |-> "none", code |-> <<>>, evaluation_script |-> <<>>]
StopResponse == [action |-> "stop", code |-> <<>>, evaluation_script |-> <<>>]
OtherResponse == [action |-> "other", code |-> <<>>, evaluation_script |-> <<>>]

\* The match statement with a default that ends the loop as a stop message
\* does (C16 tells the two apart).
match_action_or_stop(action) ==
  IF action = "run" THEN "Running" ELSE "Stopped"

\* main.py:115-144: the branch the match statement takes for an action.
match_action(action) ==
  CASE action = "stop" -> "Stopped"
    [] action = "run" -> "Running"
    [] OTHER -> "Aborted"

\* main_loop's variable result before a job has ended.
NoResult == [kind |-> "unset", output |-> "", metainfo |-> <<>>]

\* main.py:128-133: the result main_loop holds after a call of
\* execute_python_function that returned (a string: the last line printed,
\* or the text of line 90 around the checkpoint's) or raised
\* FunctionExecutionError (a dict with output None).
result_of(ended) ==
  CASE ended.how = "return" ->
         [kind |-> "str", output |-> ended.output, metainfo |-> <<>>]
    [] ended.how = "checkpoint" ->
         [kind |-> "str", output |-> ended.output,
          metainfo |-> <<"Checkpoint">>]
    [] OTHER ->
         [kind |-> "dict", output |-> "None", metainfo |-> ended.message]

\* subprocess.SubprocessError and its subclasses.
SubprocessErrors ==
  {"SubprocessError", "CalledProcessError", "TimeoutExpired"}
\* str(e) of the SubprocessError Popen raises when preexec_fn fails, and
\* other texts of such errors.
PreexecText == <<"Exception occurred in preexec_fn.">>
ErrorTexts ==
  { PreexecText, <<"Exception occurred in preexec_fn">>, <<"timed out">>,
    <<>> }
\* How a call of execute_python_function can end, seen from main_loop: a
\* return, a FunctionExecutionError, a SubprocessError of some text, or an
\* exception of another class.
ExecutorEnds ==
  { Ended("return", "l1", <<>>),
    Ended("FunctionExecutionError", "", <<"Execution failed", "Timeout">>),
    Ended("TypeError", "", <<>>), Ended("OSError", "", PreexecText) }
  \cup { Ended(e, "", t) : e \in SubprocessErrors, t \in ErrorTexts }

\* Every SubprocessError reported as an internal error (C39 tells the two
\* apart).
internal_error(text) == <<"Internal server error">>

\* main.py:136-142: the metainfo for a SubprocessError of text str(e).
subprocess_metainfo(text) ==
  IF text = PreexecText
  THEN <<"Execution failed: Memory limit exceeded">>
  ELSE <<"Internal server error">>

\* main.py:127-142: the exceptions of the executor main_loop catches.
Caught == {"return", "FunctionExecutionError"} \cup SubprocessErrors

\* main.py:127-142: the result main_loop holds after the try statement.
result_after(ended) ==
  IF ended.how \in SubprocessErrors
  THEN [kind |-> "dict", output |-> "None",
        metainfo |-> subprocess_metainfo(ended.message)]
  ELSE result_of(ended)

\* main.py:107: the body of the first request.
ReadyRequest == [ready |-> TRUE, message |-> NoResponse, result |-> NoResult]

\* main.py:147: {**response, "result": result}.
EchoRequest(response, result) ==
  [ready |-> FALSE, message |-> response, result |-> result]

\* A delay or a multiplier: the fraction num/den of a second.
Fraction(num, den) == [num |-> num, den |-> den]
\* A delay that no failure changes (C37 tells the two apart).
SameDelay(a, b) == a
\* main.py:53: delay *= delay_multiplier.
Times(a, b) == Fraction(a.num * b.num, a.den * b.den)
\* main.py:102-103: the defaults of initial_delay and delay_multiplier.
DefaultDelay == Fraction(1, 1)
DefaultMultiplier == Fraction(3, 2)
\* The delays and multipliers a caller of main_loop may pass.
Delays == { Fraction(1, 1), Fraction(1, 100) }
Multipliers == { Fraction(3, 2), Fraction(6, 5), Fraction(2, 1) }
\* The statuses a coordinator may answer with.
Statuses == {200, 201, 204, 404, 500}
\* The exceptions session.post raises when the network call itself fails.
TransportErrors == {"ClientConnectionError", "TimeoutError"}
\* The code of the jobs whose entry point may behave in any way.
JobCodes == { <<>>, <<[path |-> <<"a">>, content |-> "x"]>> }

\* ------------------------------------------------------------------ inputs
TargetSets == { T \in SUBSET RelPaths : Cardinality(T) <= MaxTargets }

\* The dicts a caller may pass: keys are distinct strings.  The code never
\* inspects a content, so the first entry's content is fixed.
Maps ==
  UNION { { m \in [1..n -> [path : RelPaths, content : Contents]] :
              /\ \A i, j \in 1..n : i # j => m[i].path # m[j].path
              /\ n >= 1 => m[1].content = "x" } : n \in 0..MaxEntries }

\* The dicts a caller may pass as code_files: relative paths of one or two
\* components.
CodeFiles ==
  { m \in Maps : \A i \in DOMAIN m :
                   m[i].path \in { <<"a">>, <<"b">>, <<"a", "a">>,
                                   <<"a", "b">> } }

\* Target paths of up to three plain components, for base trees that lack
\* the directory a target lies in.
DeepPaths == { <<"b">>, <<"a", "b">>, <<"b", "a">>, <<"a", "b", "a">> }
\* No target of a set lies above another: one dict cannot name a path as
\* a file and as a directory.
DeepTargetSets ==
  { T \in SUBSET DeepPaths :
      /\ T # {} /\ Cardinality(T) <= MaxTargets
      /\ \A t, u \in T : ~IsProperPrefix(t, u) }
\* The dicts whose keys are the paths T.
MapsOver(T) ==
  { m \in [1..Cardinality(T) -> [path : T, content : {"x"}]] :
      \A i, j \in DOMAIN m : i # j => m[i].path # m[j].path }

\* ------------------------------------------------------------------ state
VARIABLES
  fs,        \* [base, dest]: the base repository and the overlay directory
  base0,     \* the base repository before any call
  call,      \* the last call: [op, targets, map, result, failedAt]
  before,    \* fs when the last call began
  calls,     \* number of calls made
  again,     \* the last call repeated the call before it, same arguments
  prior,     \* how the call before the last one ended
  args,      \* the patterns and skip names of the last call of
             \* mirror_with_symlink_exceptions: [patterns, skip_names]
  pc,        \* main_loop: AwaitingResponse, Running, Stopped or Aborted
  execpc,    \* execute_python_function: idle, body (inside the with
             \* statement) or exit (the body has ended)
  response,  \* main_loop's variable response: the message it is handling
  inbound,   \* that message as the coordinator sent it
  attempt,   \* failed attempts of the pending send_to_server call
  sessions,  \* the session directories that exist
  session,   \* the session directory of the last job
  outcome,   \* how the body of execute_python_function or main_loop ended
  proc,      \* what the process of the last job's entry point does
  ended,     \* how the body of execute_python_function ended: [how,
             \* output, message]
  result,    \* main_loop's variable result
  jobs,      \* number of calls of execute_python_function
  request,   \* the body of the last request
  requests,  \* number of requests issued
  step,      \* number of calls of send_to_server made
  statuses,  \* the statuses answered to the pending send_to_server call
  delay,     \* send_to_server's variable delay
  waits,     \* the delays the pending send_to_server call has slept
  initial_delay,    \* main_loop's parameters
  delay_multiplier,
  completion,  \* the call of a completer: [pc, completer, prefix, alarm,
               \* handler, names, pending, timed_out, failed, value, raised]
  codebase,    \* the last call of get_codebase: its arguments and how it
               \* ended
  runtime,     \* the last Runtime made: its arguments, the exception
               \* raised or its experiment_name
  taken        \* the last run message taken apart and the call of the
               \* executor made of it
cli == <<completion, codebase, runtime, taken>>
lib == <<base0, calls, again, prior, args, cli>>
channel == <<attempt, request, requests, step, statuses, delay, waits>>
params == <<initial_delay, delay_multiplier>>
loop == <<pc, execpc, response, inbound, sessions, session, outcome, proc,
          ended, result, jobs, channel, params>>
vars == <<fs, call, before, lib, loop>>
\* Largest number of calls in one run.
MaxCalls == 2

NoCall == [op |-> "none", targets |-> {}, map |-> <<>>, result |-> "ok",
           failedAt |-> 0]

NoArgs == [patterns |-> {}, skip_names |-> {}]

\* The state when main_loop(endpoint, d, m) has issued its first request
\* (main.py:106-112 and 33-34) beside a repository out of bases and an
\* empty destination directory.
InitOf(bases, ds, ms) ==
  /\ \E b \in bases : /\ fs = [base |-> b, dest |-> Dir(NoKids)]
                      /\ base0 = b
  /\ args = NoArgs
  /\ completion = NoCompletion
  /\ codebase = NoCodebase
  /\ runtime = NoRuntime
  /\ taken = NoTaken
  /\ call = NoCall
  /\ before = fs
  /\ calls = 0
  /\ again = FALSE
  /\ prior = "ok"
  /\ pc = "AwaitingResponse"
  /\ execpc = "idle"
  /\ response = NoResponse
  /\ inbound = NoResponse
  /\ attempt = 0
  /\ sessions = {}
  /\ session = ""
  /\ outcome = "none"
  /\ proc = NoProc
  /\ ended = Ended("none", "", <<>>)
  /\ result = NoResult
  /\ jobs = 0
  /\ request = ReadyRequest
  /\ requests = 1
  /\ step = 1
  /\ statuses = <<>>
  /\ initial_delay \in ds
  /\ delay_multiplier \in ms
  /\ delay = initial_delay
  /\ waits = <<>>

\* The same beside a base repository of the overlay.
InitWith(ds, ms) == InitOf(BaseTrees, ds, ms)

\* The same beside a repository that mirror_with_symlink_exceptions is to
\* reproduce.
InitExceptions == InitOf(RepoTrees, {DefaultDelay}, {DefaultMultiplier})

\* The command line beside a repository that plays no part.
InitCli == InitOf({Dir(NoKids)}, {DefaultDelay}, {DefaultMultiplier})

\* main_loop called with the defaults of its parameters.
Init == InitWith({DefaultDelay}, {DefaultMultiplier})

\* main_loop called with any delay and multiplier.
InitChannel == InitWith(Delays, Multipliers)
\* The same for a caller of send_to_server alone, which reads no repository.
InitSteps == InitOf({Dir(NoKids)}, Delays, Multipliers)

\* The repositories mounted at REPO_DIR that hold the entry point a or a/b
\* and, some of them, a file b and a file checkpoint.json at the root.
SessionBases ==
  { Dir([n \in {"a"} \cup S |->
           IF n = "a" THEN a ELSE File(BaseContent)]) :
      a \in { File(BaseContent), Dir([n \in {"b"} |-> File(BaseContent)]) },
      S \in SUBSET {"b", "checkpoint.json"} }
InitSessions == InitOf(SessionBases, {DefaultDelay}, {DefaultMultiplier})

\* A caller invokes mirror_overlay(base_dir, overlay_dir, targets).
MirrorOverlay ==
  /\ calls < MaxCalls
  /\ \E T \in TargetSets :
       \E r \in { mirror_overlay(fs, T) } :
          /\ fs' = r.fs
          /\ call' = [op |-> "mirror", targets |-> T, map |-> <<>>,
                      result |-> r.result, failedAt |-> r.failedAt]
  /\ before' = fs
  /\ calls' = calls + 1
  /\ again' = FALSE
  /\ prior' = call.result
  /\ UNCHANGED <<base0, args, cli, loop>>

\* A caller invokes materialize_overrides(overlay_dir, map) once, on an
\* overlay directory that is empty or that mirror_overlay has built.
MaterializeOverrides ==
  /\ calls < MaxCalls
  /\ call.op \in {"none", "mirror"}
  /\ \E m \in Maps :
       \E r \in { materialize_overrides(fs, m) } :
          /\ fs' = r.fs
          /\ call' = [op |-> "materialize", targets |-> {}, map |-> m,
                      result |-> r.result, failedAt |-> r.failedAt]
  /\ before' = fs
  /\ calls' = calls + 1
  /\ again' = FALSE
  /\ prior' = call.result
  /\ UNCHANGED <<base0, args, cli, loop>>

\* A caller invokes mirror_overlay_and_overwrite(base_dir, overlay_dir, map)
\* on a fresh overlay directory.
MirrorOverlayAndOverwrite ==
  /\ calls = 0
  /\ \E m \in Maps :
       \E r \in { mirror_overlay_and_overwrite(fs, m) } :
          /\ fs' = r.fs
          /\ call' = [op |-> "composite", targets |-> Keys(m), map |-> m,
                      result |-> r.result, failedAt |-> r.failedAt]
  /\ before' = fs
  /\ calls' = calls + 1
  /\ again' = FALSE
  /\ prior' = call.result
  /\ UNCHANGED <<base0, args, cli, loop>>

\* The caller invokes mirror_overlay_and_overwrite a second time in a row
\* with the same base_dir, overlay_dir and map.
OverwriteAgain ==
  /\ 0 < calls /\ calls < MaxCalls
  /\ call.op = "composite"
  /\ \E r \in { mirror_overlay_and_overwrite(fs, call.map) } :
        /\ fs' = r.fs
        /\ call' = [call EXCEPT !.result = r.result, !.failedAt = r.failedAt]
  /\ before' = fs
  /\ calls' = calls + 1
  /\ again' = TRUE
  /\ prior' = call.result
  /\ UNCHANGED <<base0, args, cli, loop>>

\* A caller invokes mirror_with_symlink_exceptions(repo_dir, dest_dir,
\* symlink_patterns, skip_names=...), on a destination that is empty or
\* that an earlier call has left.
MirrorWithExceptions ==
  /\ calls < MaxCalls
  /\ \E ps \in PatternSets, sk \in SkipNameSets, order \in Orders :
       \E r \in { mirror_with_symlink_exceptions(fs, ps, sk, order) } :
          /\ fs' = r.fs
          /\ call' = [op |-> "exceptions", targets |-> {}, map |-> <<>>,
                      result |-> r.result, failedAt |-> 0]
          /\ args' = [patterns |-> ps, skip_names |-> sk]
          /\ again' = (call.op = "exceptions" /\ args' = args)
  /\ before' = fs
  /\ calls' = calls + 1
  /\ prior' = call.result
  /\ UNCHANGED <<base0, cli, loop>>

\* A caller invokes apply_code_overlays(dest_dir, code_files) on a
\* destination that mirror_with_symlink_exceptions has produced.
ApplyCodeOverlays ==
  /\ calls < MaxCalls
  /\ call.op = "exceptions" /\ call.result = "ok"
  /\ \E m \in CodeFiles :
       \E r \in { apply_code_overlays(fs, m) } :
          /\ fs' = r.fs
          /\ call' = [op |-> "apply", targets |-> {}, map |-> m,
                      result |-> r.result, failedAt |-> r.failedAt]
  /\ before' = fs
  /\ calls' = calls + 1
  /\ again' = FALSE
  /\ prior' = call.result
  /\ UNCHANGED <<base0, args, cli, loop>>

\* mirror_with_symlink_exceptions and apply_code_overlays.
NextExceptions ==
  \/ MirrorWithExceptions
  \/ ApplyCodeOverlays
SpecExceptions == InitExceptions /\ [][NextExceptions]_vars

\* Everything but the call of a completer.
beside_completion ==
  <<fs, call, before, base0, calls, again, prior, args, codebase, runtime,
    taken, loop>>

\* completers.py:23 and 60-61: argcomplete calls the wrapper of a completer,
\* which calls the completer; it installs timeout_handler and arms the alarm.
CallCompleter ==
  /\ completion.pc = "idle"
  /\ \E c \in Completers, p \in Prefixes :
       completion' = [completion EXCEPT !.pc = "armed", !.completer = c,
                                        !.prefix = p, !.alarm = TRUE,
                                        !.handler = "timeout_handler"]
  /\ UNCHANGED beside_completion

\* completers.py:63: the try statement is entered.
EnterTry ==
  /\ completion.pc = "armed"
  /\ completion' = [completion EXCEPT !.pc = "config"]
  /\ UNCHANGED beside_completion

\* An exception e is raised inside the try statement (completers.py:63-98):
\* the TimeoutError of the module is handled by returning [], any other
\* exception is pending while the finally clause runs.
RaisedInTry(e, why) ==
  IF completer_catches(e)
  THEN [completion EXCEPT !.pc = "finally", !.value = <<>>, !.failed = why]
  ELSE [completion EXCEPT !.pc = "finally", !.pending = e, !.failed = why]

\* completers.py:73: load_config returns or raises.
LoadConfig ==
  /\ completion.pc = "config"
  /\ \/ completion' = [completion EXCEPT !.pc = "platform"]
     \/ \E e \in ConfigErrors : completion' = RaisedInTry(e, "config")
  /\ UNCHANGED beside_completion

\* completers.py:76: K8sPlatform(None, config.token_path) returns or raises.
MakePlatform ==
  /\ completion.pc = "platform"
  /\ \/ completion' = [completion EXCEPT !.pc = "list"]
     \/ \E e \in PlatformErrors : completion' = RaisedInTry(e, "platform")
  /\ UNCHANGED beside_completion

\* completers.py:77-85 and 88-91: the API call answers with names, which
\* are filtered by the prefix and returned, or raises.
ListResources ==
  /\ completion.pc = "list"
  /\ \/ \E ns \in NameLists :
          completion' = [completion EXCEPT
                           !.pc = "finally", !.names = ns,
                           !.value = filter_prefix(ns, completion.prefix)]
     \/ \E e \in ApiErrors : completion' = RaisedInTry(e, "api")
  /\ UNCHANGED beside_completion

\* completers.py:37-39: the alarm goes off and timeout_handler raises the
\* module's TimeoutError where the completer is: inside the try statement,
\* or outside it, before the try statement or in the finally clause before
\* signal.alarm(0), where nothing of the completer handles it.
AlarmFires ==
  /\ completion.alarm
  /\ completion.pc \in {"armed", "config", "platform", "list", "finally"}
  /\ completion' =
       IF completion.pc \in {"config", "platform", "list"}
       THEN [RaisedInTry(CompleterTimeout, "timeout") EXCEPT
               !.alarm = FALSE, !.timed_out = TRUE]
       ELSE [completion EXCEPT !.pc = "wrapper", !.alarm = FALSE,
                               !.timed_out = TRUE, !.failed = "timeout",
                               !.pending = CompleterTimeout]
  /\ UNCHANGED beside_completion

\* completers.py:96-98: the finally clause cancels the alarm.
CancelAlarm ==
  /\ completion.pc = "finally"
  /\ completion' = [completion EXCEPT !.pc = "wrapper", !.alarm = FALSE]
  /\ UNCHANGED beside_completion

\* completers.py:23-28: the wrapper returns what the completer returned,
\* or [] for an exception it catches; any other exception leaves it.
WrapperEnds ==
  /\ completion.pc = "wrapper"
  /\ completion' =
       IF completion.pending = "none"
       THEN [completion EXCEPT !.pc = "returned"]
       ELSE IF safe_completer_catches(completion.pending)
       THEN [completion EXCEPT !.pc = "returned", !.value = <<>>,
                               !.pending = "none"]
       ELSE [completion EXCEPT !.pc = "raised",
                               !.raised = completion.pending,
                               !.pending = "none"]
  /\ UNCHANGED beside_completion

\* One call of experiment_completer or sandbox_completer.
NextCompleter ==
  \/ CallCompleter
  \/ EnterTry
  \/ LoadConfig
  \/ MakePlatform
  \/ ListResources
  \/ AlarmFires
  \/ CancelAlarm
  \/ WrapperEnds
SpecCompleter == InitCli /\ [][NextCompleter]_vars

\* A caller invokes get_codebase(source, dest, branch) in some world.
GetCodebase ==
  /\ ~codebase.called
  /\ \E source \in Sources, token \in Tokens, branch \in Branches,
        w \in Worlds, id \in RandomIds :
       \E r \in { get_codebase(source, token, branch, w, id) } :
          codebase' = [called |-> TRUE, source |-> source, token |-> token,
                       branch |-> branch, world |-> w, how |-> r.how,
                       value |-> r.value, message |-> r.message,
                       url |-> r.url, dest |-> r.dest,
                       checked_out |-> r.checked_out]
  /\ UNCHANGED <<fs, call, before, base0, calls, again, prior, args,
                 completion, runtime, taken, loop>>

\* One call of get_codebase.
NextCodebase == GetCodebase
SpecCodebase == InitCli /\ [][NextCodebase]_vars

\* A caller makes a Runtime, with or without a name, at some second.
MakeRuntime ==
  /\ ~runtime.made
  /\ \E given \in BOOLEAN, n \in ExpNames, t \in Timestamps :
       /\ given \/ n = <<>>
       /\ \E r \in { Runtime_init(given, n, t) } :
            runtime' = [made |-> TRUE, given |-> given, exp_name |-> n,
                        timestamp |-> t, how |-> r.how, none |-> r.none,
                        text |-> r.text]
  /\ UNCHANGED <<fs, call, before, base0, calls, again, prior, args,
                 completion, codebase, taken, loop>>

\* One Runtime.
NextRuntime == MakeRuntime
SpecRuntime == InitCli /\ [][NextRuntime]_vars

\* main.py:119-130: main_loop takes the fields of a run message and calls
\* the executor with them, unless a conversion raises.
TakeJobFields ==
  /\ ~taken.done
  /\ \E m \in RunMessages :
       \E r \in { job_fields(m) } :
          taken' = [done |-> TRUE, message |-> m, fields |-> r]
  /\ UNCHANGED <<fs, call, before, base0, calls, again, prior, args,
                 completion, codebase, runtime, loop>>

\* One run message.
NextFields == TakeJobFields
SpecFields == InitCli /\ [][NextFields]_vars

\* mirror_overlay on its own, on any destination it has left before.
NextMirror == MirrorOverlay
SpecMirror == Init /\ [][NextMirror]_vars

\* materialize_overrides on its own.
NextMaterialize ==
  \/ calls = 0 /\ MirrorOverlay
  \/ MaterializeOverrides
SpecMaterialize == Init /\ [][NextMaterialize]_vars

\* mirror_overlay on a destination that holds what earlier calls have left:
\* an overlay built for other targets, or files and directories written by
\* materialize_overrides.
NextRebuild ==
  \/ MirrorOverlay
  \/ MaterializeOverrides
SpecRebuild == Init /\ [][NextRebuild]_vars

\* A caller invokes mirror_overlay on a fresh overlay directory with
\* targets of up to three components.
MirrorDeep ==
  /\ calls = 0
  /\ \E T \in DeepTargetSets :
       \E r \in { mirror_overlay(fs, T) } :
          /\ fs' = r.fs
          /\ call' = [op |-> "mirror", targets |-> T, map |-> <<>>,
                      result |-> r.result, failedAt |-> r.failedAt]
  /\ before' = fs
  /\ calls' = calls + 1
  /\ again' = FALSE
  /\ prior' = call.result
  /\ UNCHANGED <<base0, args, cli, loop>>

\* The caller then invokes materialize_overrides with a dict whose keys are
\* those targets.
MaterializeDeep ==
  /\ calls < MaxCalls
  /\ call.op = "mirror" /\ call.result = "ok"
  /\ \E m \in MapsOver(call.targets) :
       \E r \in { materialize_overrides(fs, m) } :
          /\ fs' = r.fs
          /\ call' = [op |-> "materialize", targets |-> call.targets,
                      map |-> m, result |-> r.result,
                      failedAt |-> r.failedAt]
  /\ before' = fs
  /\ calls' = calls + 1
  /\ again' = FALSE
  /\ prior' = call.result
  /\ UNCHANGED <<base0, args, cli, loop>>

\* mirror_overlay, then materialize_overrides, for targets that may lie in
\* directories the base tree lacks.
NextDeep ==
  \/ MirrorDeep
  \/ MaterializeDeep
SpecDeep == Init /\ [][NextDeep]_vars

\* The composite, as execute_python_function uses it.
NextOverwrite ==
  \/ MirrorOverlayAndOverwrite
  \/ OverwriteAgain
SpecOverwrite == Init /\ [][NextOverwrite]_vars

\* Largest number of jobs of one run of main_loop.
MaxJobs == 2
\* Largest number of failed attempts of one send_to_server call when every
\* status is answered.
MaxRetries == 3

\* main.py:44-54: an attempt is answered with a status of S, none of them
\* 200; send_to_server sleeps the delay, multiplies it and sends the same
\* request again.
Retry(S, max) ==
  /\ pc = "AwaitingResponse"
  /\ attempt < max
  /\ \E status \in S : statuses' = Append(statuses, status)
  /\ waits' = Append(waits, delay)
  /\ delay' = Times(delay, delay_multiplier)
  /\ attempt' = attempt + 1
  /\ requests' = requests + 1
  /\ UNCHANGED <<fs, call, before, lib, pc, execpc, response, inbound,
                 sessions, session, outcome, proc, ended, result, jobs,
                 request, step, params>>

\* A coordinator that fails with one status.
RetryRequest == Retry({500}, MaxAttempts)

\* A coordinator that answers with any status.
RetryAnyStatus == Retry(Statuses \ {200}, MaxRetries)

\* main.py:35-43: session.post raises; send_to_server and main_loop catch
\* nothing, so the exception leaves both.
TransportFailure ==
  /\ pc = "AwaitingResponse"
  /\ \E e \in TransportErrors : outcome' = e
  /\ pc' = "Aborted"
  /\ UNCHANGED <<fs, call, before, lib, execpc, response, inbound, sessions,
                 session, proc, ended, result, jobs, channel, params>>

\* main.py:45-47 and 56: the pending request is answered with status 200 and
\* the message; send_to_server returns it.
Answered(message) ==
  /\ pc = "AwaitingResponse"
  /\ statuses' = Append(statuses, 200)
  /\ response' = message
  /\ inbound' = message
  /\ pc' = match_action(message.action)
  /\ UNCHANGED <<lib, attempt, request, requests, step, delay, waits,
                 params, result>>

\* main.py:116-118: the answer is a stop message.
ReceiveStop ==
  /\ Answered(StopResponse)
  /\ UNCHANGED <<fs, call, before, execpc, sessions, session, outcome, proc,
                 ended, jobs>>

\* main.py:143-144: the answer carries any other action.
ReceiveUnknown ==
  /\ Answered(OtherResponse)
  /\ outcome' = IF pc' = "Aborted" THEN "ValueError" ELSE outcome
  /\ UNCHANGED <<fs, call, before, execpc, sessions, session, proc, ended,
                 jobs>>

\* main.py:119-130 and 67: the answer is a run message with code of codes
\* for an entry point that behaves as one of procs; main_loop calls
\* execute_python_function, which creates the session directory.
ReceiveRunOf(codes, procs) ==
  /\ pc = "AwaitingResponse"
  /\ jobs < MaxJobs
  /\ \E c \in codes, e \in EvaluationScripts :
       Answered([action |-> "run", code |-> c, evaluation_script |-> e])
  /\ \E p \in procs : proc' = p
  /\ \E d \in SessionNames \ sessions :
       /\ session' = d
       /\ sessions' = sessions \cup {d}
  /\ fs' = [fs EXCEPT !.dest = Dir(NoKids)]
  /\ jobs' = jobs + 1
  /\ execpc' = "body"
  /\ UNCHANGED <<call, before, outcome, ended>>

\* A job with any code, its entry point printing one line.
ReceiveRun == ReceiveRunOf(Maps, {OneLineProc})

\* A job with little code, its entry point behaving in any way.
ReceiveJob == ReceiveRunOf(JobCodes, Procs)

\* main.py:68-97: the body of the with statement.  code_files is the dict
\* response["code"] itself (main.py:120), so line 73 changes the message
\* main_loop holds.
ExecBody ==
  /\ pc = "Running" /\ execpc = "body"
  /\ \E r \in { execute_python_function(fs, response.code,
                                         response.evaluation_script, proc) } :
        /\ fs' = r.fs
        /\ call' = [op |-> "execute", targets |-> Keys(r.map), map |-> r.map,
                    result |-> r.overlay, failedAt |-> r.failedAt]
        /\ response' = [response EXCEPT !.code = r.map]
        /\ ended' = r.ended
        /\ outcome' = r.ended.how
  /\ before' = fs
  /\ execpc' = "exit"
  /\ UNCHANGED <<lib, pc, inbound, sessions, session, proc, result, jobs,
                 channel, params>>

\* main.py:67 and 131-152: the with statement is left and the session
\* directory removed; main_loop sends the result of a job that returned or
\* raised FunctionExecutionError in a new call of send_to_server, any other
\* exception leaves main_loop.
ExecExit ==
  /\ pc = "Running" /\ execpc = "exit"
  /\ sessions' = Cleanup(sessions, session, outcome)
  /\ fs' = [fs EXCEPT !.dest = IF session \in sessions' THEN @
                                ELSE Dir(NoKids)]
  /\ execpc' = "idle"
  /\ IF outcome \in Reported
     THEN /\ pc' = "AwaitingResponse"
          /\ result' = result_of(ended)
          /\ request' = EchoRequest(response, result')
          /\ requests' = requests + 1
          /\ step' = step + 1
          /\ attempt' = 0
          /\ statuses' = <<>>
          /\ delay' = initial_delay
          /\ waits' = <<>>
     ELSE /\ pc' = "Aborted"
          /\ UNCHANGED <<result, channel>>
  /\ UNCHANGED <<call, before, lib, response, inbound, session, outcome,
                 proc, ended, jobs, params>>

\* Largest number of calls of send_to_server by one caller.
MaxSteps == 3

\* A coordinator that answers with one of two failure statuses.
RetryStep == Retry({404, 500}, MaxRetries)

\* main.py:45-47 and 56: the pending request is answered with status 200;
\* send_to_server returns to its caller.
SendReturns ==
  /\ pc = "AwaitingResponse"
  /\ statuses' = Append(statuses, 200)
  /\ pc' = "Returned"
  /\ UNCHANGED <<fs, call, before, lib, execpc, response, inbound, sessions,
                 session, outcome, proc, ended, result, jobs, attempt,
                 request, requests, step, delay, waits, params>>

\* main.py:30-33: the caller calls send_to_server again, with the same
\* initial_delay and delay_multiplier (main.py:146-152).
SendToServer ==
  /\ pc = "Returned"
  /\ step < MaxSteps
  /\ pc' = "AwaitingResponse"
  /\ step' = step + 1
  /\ requests' = requests + 1
  /\ attempt' = 0
  /\ statuses' = <<>>
  /\ delay' = initial_delay
  /\ waits' = <<>>
  /\ UNCHANGED <<fs, call, before, lib, execpc, response, inbound, sessions,
                 session, outcome, proc, ended, result, jobs, request,
                 params>>

\* send_to_server called time after time by one caller.
NextSteps ==
  \/ RetryStep
  \/ SendReturns
  \/ SendToServer
SpecSteps == InitSteps /\ [][NextSteps]_vars

\* main.py:127-152 with an executor that ends in any way a call can end, as
\* the stub of tests/test_main.py:57-64 stands for: the session directory
\* is removed, a caught outcome becomes the result and is sent in a new
\* call of send_to_server, any other exception leaves main_loop.
ExecutorDone ==
  /\ pc = "Running" /\ execpc = "body"
  /\ \E e \in ExecutorEnds :
       /\ ended' = e
       /\ outcome' = e.how
       /\ sessions' = Cleanup(sessions, session, e.how)
       /\ IF e.how \in Caught
          THEN /\ pc' = "AwaitingResponse"
               /\ result' = result_after(e)
               /\ request' = EchoRequest(response, result')
               /\ requests' = requests + 1
               /\ step' = step + 1
               /\ attempt' = 0
               /\ statuses' = <<>>
               /\ delay' = initial_delay
               /\ waits' = <<>>
          ELSE /\ pc' = "Aborted"
               /\ UNCHANGED <<result, channel>>
  /\ execpc' = "idle"
  /\ UNCHANGED <<fs, call, before, lib, response, inbound, session, proc,
                 jobs, params>>

\* A job for that executor: no process of an entry point is described.
ReceiveForExecutor == ReceiveRunOf(JobCodes, {NoProc})

\* main_loop around an executor that ends in any way.
NextHandler ==
  \/ RetryRequest
  \/ ReceiveStop
  \/ ReceiveForExecutor
  \/ ExecutorDone
SpecHandler == InitCli /\ [][NextHandler]_vars

\* main_loop with one coordinator.
Next ==
  \/ RetryRequest
  \/ TransportFailure
  \/ ReceiveStop
  \/ ReceiveUnknown
  \/ ReceiveRun
  \/ ExecBody
  \/ ExecExit

Spec == Init /\ [][Next]_vars

\* main_loop with jobs whose entry point behaves in any way.
NextJobs ==
  \/ ReceiveStop
  \/ ReceiveJob
  \/ ExecBody
  \/ ExecExit

SpecJobs == Init /\ [][NextJobs]_vars

\* The same over repositories that may hold a checkpoint.json.
NextSessions ==
  \/ ReceiveStop
  \/ ReceiveJob
  \/ ExecBody
  \/ ExecExit
SpecSessions == InitSessions /\ [][NextSessions]_vars

\* One step of the channel: the first call of send_to_server, with any
\* delay and multiplier, answered with any status.
NextChannel ==
  \/ RetryAnyStatus
  \/ TransportFailure
  \/ ReceiveStop
  \/ ReceiveUnknown

SpecChannel == InitChannel /\ [][NextChannel]_vars

\* ------------------------------------------------------------ the claims
\* Every path of plain names the model's trees can hold.
PlainPaths == UNION { [1..k -> Names] : k \in 1..(BaseDepth + 1) }

\* The place of the overlay a relative path names: the components of its
\* normal form.
Place(rel_path) == normpath(rel_path).comps

\* A target path as the data model describes it: relative, without "..".
IsRelativeTarget(t) == ~normpath(t).abs /\ ".." \notin Range(t)

MirrorDone == call.op = "mirror" /\ call.result = "ok"

\* The targets the claim is unambiguous for: relative paths, none naming a
\* directory of the base tree, none naming a place above another target.
PlainFileTargets(targets) ==
  /\ \A t \in targets : IsRelativeTarget(t)
  /\ \A t \in targets : Get(fs.base, Place(t)).kind # "dir"
  /\ \A t, u \in targets : ~IsProperPrefix(Place(t), Place(u))

\* C1 (as stated, for targets that name files): after mirror_overlay, every
\* entry of the overlay that is a proper ancestor of a target is a real
\* directory, every entry that is neither a target nor an ancestor of one is
\* a symlink to the corresponding base entry, and nothing exists at a target
\* path.
C1_OverlayShape ==
  (MirrorDone /\ PlainFileTargets(call.targets)) =>
    LET places == { Place(t) : t \in call.targets }
        isAncestor(p) == \E q \in places : IsProperPrefix(p, q)
    IN \A p \in PlainPaths :
         LET e == Get(fs.dest, p)
         IN /\ (e.kind # "none" /\ isAncestor(p)) => e.kind = "dir"
            /\ (e.kind # "none" /\ p \notin places /\ ~isAncestor(p))
                 => e = Link(p)
            /\ p \in places => e.kind = "none"

\* A base entry that mirror_overlay leaves out although it is no target: a
\* regular file named by the leading components of a target as written.
IsFileOnTargetPath(p) ==
  /\ Get(fs.base, p).kind = "file"
  /\ \E t \in call.targets : IsProperPrefix(p, t)

\* Base path p reads the same through the overlay: a file resolves to the
\* base file itself, a directory to a directory.
ReadsAsBase(p) ==
  LET st == Stat(fs, p)
  IN /\ st.kind = Get(fs.base, p).kind
     /\ st.kind = "file" => (st.tree = "base" /\ st.path = p)

\* Every entry of the overlay that is no directory is a symlink to the base
\* entry of the same relative path.
LeavesAreLinks ==
  \A p \in PlainPaths :
    Get(fs.dest, p).kind \notin {"none", "dir"} =>
      (Get(fs.dest, p) = Link(p) /\ Get(fs.base, p).kind # "none")

Accepted(map) == \A i \in DOMAIN map : ~Rejected(map[i].path)

\* C3 (as stated): building the overlay and materializing a map of accepted
\* relative paths never creates, modifies or removes anything in the base
\* repository.
C3_BaseNeverWritten ==
  (call.op = "composite" /\ Accepted(call.map)) => fs.base = base0

\* C4 (as stated): materialize_overrides called with a map holding a path
\* that escapes the root fails and leaves the filesystem exactly as it was.
C4_RejectedBeforeAnyWrite ==
  (call.op = "materialize" /\ ~Accepted(call.map)) =>
    (call.result # "ok" /\ fs = before)

HasDotDotOrLeadingSeparator(rel_path) ==
  ".." \in Range(rel_path) \/ (Len(rel_path) >= 2 /\ rel_path[1] = "")

\* C5 (as stated): materialize_overrides fails for every map holding a path
\* with a ".." component in any position or a leading separator.
C5_AnyDotDotFails ==
  (/\ call.op = "materialize"
   /\ \E i \in DOMAIN call.map : HasDotDotOrLeadingSeparator(call.map[i].path))
    => call.result # "ok"

\* A path that leads out of the root: its normal form starts with the
\* separator or with "..".
EscapesRoot(rel_path) ==
  LET n == normpath(rel_path)
  IN n.abs \/ (n.comps # <<>> /\ Head(n.comps) = "..")

\* The first entry of the map whose path leads out of the root.
FirstEscaping(map) ==
  CHOOSE i \in DOMAIN map :
    EscapesRoot(map[i].path) /\ \A j \in 1..(i - 1) : ~EscapesRoot(map[j].path)

\* C5 (amended): materialize_overrides never completes for a map holding a
\* path whose normal form starts with the separator or with "..": it raises
\* ValueError at the first such entry, unless an earlier entry raised an OS
\* error, and goes no further.
C5_EscapingPathFails ==
  (/\ call.op = "materialize"
   /\ \E i \in DOMAIN call.map : EscapesRoot(call.map[i].path)) =>
    /\ call.result # "ok"
    /\ 1 <= call.failedAt /\ call.failedAt <= FirstEscaping(call.map)
    /\ call.failedAt = FirstEscaping(call.map) <=> call.result = "ValueError"

\* C5 witness: the second entry of a map is rejected after the first was
\* written.
C5_Witness ==
  /\ call.op = "materialize"
  /\ Len(call.map) = 2
  /\ call.result = "ValueError"
  /\ call.failedAt = 2
  /\ LEntry(fs, Place(call.map[1].path)) = File(call.map[1].content)

\* What lstat sees at the place of entry i of the last call's map.
Written(i) == LEntry(fs, Place(call.map[i].path))

NotOverwritten(map, i) ==
  \A j \in DOMAIN map :
    j > i => ~IsPrefix(Place(map[j].path), Place(map[i].path))

C7_OverwriteIdempotent ==
  again =>
    /\ call.result = prior
    /\ fs.dest = before.dest
    /\ \A i \in DOMAIN call.map :
         /\ ~Rejected(call.map[i].path) =>
              Written(i) = LEntry(before, Place(call.map[i].path))
         /\ call.result = "ok" => Written(i).kind # "link"

\* C7 witness: the second call returned, having replaced a symlink and
\* filled a hole again.
C7_Witness ==
  /\ again /\ call.result = "ok" /\ Len(call.map) = 2
  /\ \A i \in DOMAIN call.map : Written(i) = File(call.map[i].content)
  /\ \E i \in DOMAIN call.map :
       Get(MirrorTopLevel(fs.base, Keys(call.map)),
           Place(call.map[i].path)).kind = "link"

\* ------------------------------------------------- claims on the job loop
\* C8: every call of execute_python_function creates a session directory
\* that did not exist, empty, and that directory no longer exists when the
\* call exits, however the body ended.
C8_SessionRemovedOnEveryExit ==
  [][ /\ (execpc = "idle" /\ execpc' = "body") =>
           /\ session' \notin sessions
           /\ session' \in sessions'
           /\ fs'.dest = Dir(NoKids)
      /\ (execpc = "exit" /\ execpc' = "idle") =>
           /\ session \in sessions
           /\ session \notin sessions' ]_vars

\* C8 witness: a call has exited by an exception raised after the overlay
\* was built in its session directory, and the directory is gone.
C8_Witness ==
  /\ execpc = "idle" /\ call.op = "execute" /\ call.result = "ok"
  /\ outcome \notin Reported
  /\ before.dest = Dir(NoKids) /\ call.map # <<>>
  /\ session \in SessionNames /\ session \notin sessions

CallerSuppliesScript ==
  \E i \in DOMAIN inbound.code :
    inbound.code[i].path = inbound.evaluation_script

\* C10 (as stated): when the code of the job holds the entry point, the body
\* does not need the script in the base repository and hands the code to the
\* overlay as the caller gave it.
C10_CallerScriptKept ==
  (call.op = "execute" /\ CallerSuppliesScript) =>
    (outcome \notin ReadErrors /\ call.map = inbound.code)

\* The entry point as the base repository held it when the body began.
ScriptInBase ==
  Get(before.base,
      SelectSeq(inbound.evaluation_script, LAMBDA c : c # "."))

\* C10 (amended): execute_python_function always reads the entry point from
\* the base repository.  When it is no file there the call fails before an
\* overlay is built.  Otherwise the dict handed to the overlay holds the base
\* repository's content under the entry point's key, whatever the caller
\* supplied for it, the caller's other entries are unchanged, and once the
\* overlay is built the entry point is a real file with the base
\* repository's content unless a later key names its place.
C10_ScriptAlwaysFromBase ==
  call.op = "execute" =>
    IF ScriptInBase.kind # "file"
    THEN /\ outcome \in ReadErrors
         /\ call.result = "notcalled"
         /\ call.map = inbound.code
         /\ fs.dest = Dir(NoKids) /\ fs.base = before.base
    ELSE LET script == [path |-> inbound.evaluation_script,
                        content |-> ScriptInBase.content]
         IN /\ outcome \notin ReadErrors
            /\ Len(call.map) =
                 Len(inbound.code) + (IF CallerSuppliesScript THEN 0 ELSE 1)
            /\ \A i \in DOMAIN call.map :
                 call.map[i] =
                   IF i \in DOMAIN inbound.code
                        /\ inbound.code[i].path # script.path
                   THEN inbound.code[i] ELSE script
            /\ \A i \in DOMAIN call.map :
                 (/\ execpc = "exit" /\ call.result = "ok"
                  /\ call.map[i] = script
                  /\ NotOverwritten(call.map, i))
                   => Written(i) = File(script.content)

\* C10 witness: the caller supplied the entry point with a content of its
\* own, and the overlay holds the base repository's content at its place.
C10_Witness ==
  /\ call.op = "execute" /\ call.result = "ok" /\ execpc = "exit"
  /\ \E i \in DOMAIN inbound.code :
       /\ inbound.code[i].path = inbound.evaluation_script
       /\ inbound.code[i].content \in Contents
       /\ call.map[i].content = BaseContent
       /\ Written(i) = File(BaseContent)

\* ------------------------------------------------- claims on the executor
\* The last call of execute_python_function has built its overlay, so that
\* the entry point is what it runs next, and its body has ended.
EntryPointDue ==
  /\ call.op = "execute" /\ call.result = "ok"
  /\ execpc \in {"exit", "idle"}

\* C11 (as stated): for every job whose entry point exits with status zero
\* after printing at least one line, the executor returns the last line of
\* the captured standard output and nothing else.
C11_ReturnsLastStdoutLine ==
  (/\ EntryPointDue
   /\ proc.exit = "zero"
   /\ proc.stdout # <<>> /\ Last(proc.stdout) # "") =>
    (outcome = "return" /\ ended.output = Last(proc.stdout))

\* C12 (as stated): for every job whose entry point fails by a non-zero exit
\* or a signal after leaving a checkpoint file at the session root, the
\* executor returns the checkpoint result, its output the complete content
\* of the file, instead of raising the failure.
C12_ReturnsWholeCheckpoint ==
  (/\ EntryPointDue
   /\ proc.exit \in {"nonzero", "signal"}
   /\ proc.checkpoint.exists) =>
    (/\ outcome = "checkpoint"
     /\ <<ended.output>> = proc.checkpoint.lines
     /\ result_of(ended).metainfo = <<"Checkpoint">>)

\* C13 (as stated): when the entry point exceeds the timeout of its job the
\* outcome is a Timeout failure, whether or not a checkpoint file exists at
\* the session root: no checkpoint is read on this path.
C13_TimeoutNeverReadsCheckpoint ==
  (EntryPointDue /\ proc.exit = "timeout") =>
    (/\ outcome = "FunctionExecutionError"
     /\ "Timeout" \in Range(ended.message))

\* ------------------------------------------------ claims on the main loop
\* The job of the message main_loop holds has run to its end: the overlay
\* was built, so that the entry point was due, and the call has exited.
JobEnded ==
  /\ inbound.action = "run"
  /\ EntryPointDue /\ execpc = "idle"

\* C14 (as stated): for every run job, whatever the process of its entry
\* point does, main_loop does not abort: the outcome is turned into a result
\* (for a failure: output None with a message) that the next request
\* carries as ordinary data.
C14_JobOutcomeAlwaysReported ==
  JobEnded =>
    /\ pc = "Aborted" => outcome \in TransportErrors
    /\ result.kind # "unset"
    /\ request = EchoRequest(response, result)
    /\ (proc.exit # "zero" /\ ~proc.checkpoint.exists) =>
         (result.output = "None" /\ result.metainfo # <<>>)

C16_UnknownActionAborts ==
  [][ /\ inbound'.action \notin {"run", "stop", "none"} =>
           /\ pc' = "Aborted" /\ outcome' = "ValueError"
           /\ execpc' = "idle"
           /\ jobs' = jobs /\ sessions' = sessions /\ call' = call
           /\ requests' = requests /\ request' = request
           /\ attempt' = attempt /\ waits' = waits
      /\ inbound.action \notin {"run", "stop", "none"} => FALSE ]_vars

\* C16 witness: main_loop has aborted with ValueError on a message of
\* unknown action that answered its first request after a failed attempt,
\* with no job run and no session directory made.
C16_Witness ==
  /\ inbound.action = "other"
  /\ pc = "Aborted" /\ outcome = "ValueError"
  /\ statuses = <<500, 200>>
  /\ requests = 2 /\ jobs = 0 /\ sessions = {} /\ call = NoCall

\* C17 (as stated): with a coordinator that answers the first request with a
\* run message for job A and the second with stop, main_loop executes A
\* once and then issues its second request, whose body carries A's outcome
\* as the result; on stop it has returned without error, having issued
\* exactly those two requests.
C17_RunThenStopTakesTwoRequests ==
  /\ (jobs = 1 /\ JobEnded) =>
       /\ pc = "AwaitingResponse"
       /\ requests = 2
       /\ request = EchoRequest(response, result_of(ended))
  /\ (jobs = 1 /\ pc = "Stopped") =>
       /\ requests = 2
       /\ request.result = result_of(ended)
       /\ outcome \in Reported

\* ------------------------------------------------- claims on the channel
\* A status of the success class.
Is2xx(status) == 200 <= status /\ status < 300

RECURSIVE Power(_, _)
\* The fraction m^k.
Power(m, k) == IF k = 0 THEN Fraction(1, 1) ELSE Times(Power(m, k - 1), m)

\* Two fractions of the same value.
SameValue(a, b) == a.num * b.den = b.num * a.den

\* The statuses answered to the pending call are k of the failure classes
\* followed by one of the success class.
FailedThenSucceeded(k) ==
  /\ Len(statuses) = k + 1
  /\ \A i \in 1..k : ~Is2xx(statuses[i])
  /\ Is2xx(statuses[k + 1])

\* C18 (as stated): when the coordinator has answered one step with a
\* non-2xx status k times and then with a success status, send_to_server has
\* returned, having issued exactly k+1 requests for the step and waited
\* d, d*m, ..., d*m^(k-1) between them.
C18_GeometricBackoff ==
  \A k \in 0..MaxRetries :
    FailedThenSucceeded(k) =>
      /\ pc # "AwaitingResponse"
      /\ requests = k + 1
      /\ Len(waits) = k
      /\ \A i \in 1..k :
           SameValue(waits[i],
                     Times(initial_delay, Power(delay_multiplier, i - 1)))

\* C19 (as stated): a response with any 2xx status ends the retry loop of
\* the step and is taken as the answer: no request is pending after it.
C19_Any2xxEndsRetry ==
  (statuses # <<>> /\ Is2xx(Last(statuses))) => pc # "AwaitingResponse"

\* C20 (as stated): a connection error or a timeout of the network call is
\* retried like a non-2xx status and never leaves main_loop.
C20_TransportFailureRetried ==
  pc = "Aborted" => outcome \notin TransportErrors

\* C21 (as stated): send_to_server never gives up on a step: the pending
\* call ends only by an answer with a success status, and an answer with a
\* success status does end it, the call returning that response.
C21_StepEndsOnlyBySuccess ==
  [][ /\ (pc = "AwaitingResponse" /\ pc' # "AwaitingResponse") =>
           (statuses' # statuses /\ Is2xx(Last(statuses')))
      /\ (/\ pc = "AwaitingResponse"
          /\ statuses' # statuses /\ Is2xx(Last(statuses'))) =>
           pc' # "AwaitingResponse" ]_vars

\* C22 (as stated): an attempt that is retried sends the same body again
\* while no job is executed and the message handled stays the same; and
\* every run message received is followed by one execution whose exit
\* issues exactly one request carrying its result.
C22_OneJobOneResultPerRun ==
  [][ /\ (statuses' # statuses /\ pc' = "AwaitingResponse"
            /\ pc = "AwaitingResponse") =>
           /\ request' = request
           /\ jobs' = jobs /\ execpc' = "idle"
           /\ inbound' = inbound /\ response' = response
      /\ (inbound'.action = "run" /\ inbound' # inbound) =>
           (jobs' = jobs + 1 /\ execpc' = "body")
      /\ (execpc = "exit" /\ execpc' = "idle" /\ EntryPointDue) =>
           /\ pc' = "AwaitingResponse"
           /\ requests' = requests + 1
           /\ request' = EchoRequest(response, result')
           /\ result' # NoResult ]_vars

\* C23 (as stated): main_loop ends only by receiving a stop message, by a
\* return, or a message of unknown action, by ValueError; no outcome of a
\* job whose entry point was run ends it.
C23_EndsOnlyOnStopOrUnknown ==
  /\ pc = "Stopped" => inbound.action = "stop"
  /\ (pc = "Aborted" /\ (jobs > 0 => EntryPointDue)) =>
       (outcome = "ValueError" /\ inbound.action \notin {"run", "stop"})

\* C24 (as stated): for every run job whose overlay is built, the call of
\* run_command that starts the entry point takes the timeout and the memory
\* limit, so that the invocation ends classified: by a return, or by a
\* FunctionExecutionError for a failure or a timeout.
C24_InvocationAcceptsLimits ==
  EntryPointDue =>
    outcome \in {"return", "checkpoint", "FunctionExecutionError"}

\* ------------------------------------------------------------------- C25
\* The paths of entries a repository may hold.
RepoPaths ==
  { <<>> } \cup { <<n>> : n \in {"a", "b", ".git"} }
           \cup { <<"a", n>> : n \in {"a", "b", ".git"} }

\* The name of the entry at path p of the repository.
NameOf(p) == IF p = <<>> THEN RepoName ELSE Last(p)

\* Path p, written with slashes relative to the source root, matches one of
\* the patterns ps.
PathMatches(ps, p) ==
  \/ AnyPath \in ps
  \/ p # <<>> /\ Exact(p) \in ps
  \/ \E n \in Range(p) : Contains(n) \in ps

\* What the mirror is to do with the entry at p of the repository src.
Decision(src, ps, skips, p) ==
  IF NameOf(p) \in {".git"} \cup skips THEN "omit"
  ELSE IF PathMatches(ps, p) THEN "link"
  ELSE IF Get(src, p).kind = "link" THEN "relink"
  ELSE IF Get(src, p).kind = "dir" THEN "recurse"
  ELSE IF Get(src, p).kind = "file" THEN "copy"
  ELSE "pass"

\* The mirror gets to the entry at p: every directory above it is recursed
\* into.
Visited(src, ps, skips, p) ==
  /\ Get(src, p).kind # "none"
  /\ \A i \in 0..(Len(p) - 1) :
       Decision(src, ps, skips, SubSeq(p, 1, i)) = "recurse"

\* mirror_with_symlink_exceptions has just run on an empty destination.
MirroredAfresh ==
  /\ call.op = "exceptions"
  /\ before.dest = Dir(NoKids)

\* What the destination holds at p once the mirror has dealt with the entry
\* at p as decision says.
Dealt(decision, p) ==
  CASE decision = "omit" ->
         IF p = <<>> THEN fs.dest = Dir(NoKids)
         ELSE LEntry(fs, p).kind = "none"
    [] decision = "link" -> LEntry(fs, p) = Link(p)
    [] decision = "relink" ->
         LEntry(fs, p) = Link(Resolve(before, "base", p, <<>>).path)
    [] decision = "recurse" ->
         /\ LEntry(fs, p).kind = "dir"
         /\ \A n \in DOMAIN LEntry(fs, p).kids :
              n \in DOMAIN Get(before.base, p).kids
    [] decision = "copy" -> LEntry(fs, p) = Get(before.base, p)
    [] OTHER -> LEntry(fs, p).kind = "none"

\* C25: mirror_with_symlink_exceptions, run on a destination that holds
\* nothing yet, returns without error, leaves the repository as it was and
\* deals with every source entry it gets to in this order of precedence: an
\* entry whose name is in the skip set is omitted with all it holds, even
\* if it matches a pattern; else an entry whose path relative to the source
\* root matches a pattern becomes a symlink to the source entry and is not
\* descended into; else a source symlink becomes a symlink to its resolved
\* target, a directory a real directory holding only what its entries
\* become, a regular file a copy, and any other entry is passed over.
C25_EntriesClassified ==
  MirroredAfresh =>
    /\ call.result = "ok"
    /\ fs.base = before.base
    /\ \A p \in RepoPaths :
         Visited(before.base, args.patterns, args.skip_names, p) =>
           Dealt(Decision(before.base, args.patterns, args.skip_names, p), p)

\* A mirror of a repository that holds a skipped directory matching a
\* pattern, a directory with a file, and a symlink, has been made.
C25_Witness ==
  /\ MirroredAfresh
  /\ args = [patterns |-> {Contains(".git")}, skip_names |-> {}]
  /\ Get(before.base, <<".git">>).kind = "dir"
  /\ Get(before.base, <<"a", "a">>).kind = "file"
  /\ Get(before.base, <<"b">>).kind = "link"
  /\ LEntry(fs, <<".git">>).kind = "none"
  /\ LEntry(fs, <<"a", "a">>).kind = "file"
  /\ LEntry(fs, <<"b">>).kind = "link"

\* ------------------------------------------------------------------- C26
\* mirror_with_symlink_exceptions has just run on a destination that held
\* an entry at p, a path the mirror gets to.
MirroredOnto(p) ==
  /\ call.op = "exceptions"
  /\ Visited(before.base, args.patterns, args.skip_names, p)
  /\ Decision(before.base, args.patterns, args.skip_names, p) # "omit"
  /\ LEntry(before, p).kind # "none"

\* C26: when mirror_with_symlink_exceptions runs on a destination that
\* already holds an entry at a mirrored path, the call returns, the entry
\* is replaced by what the mirror calls for there (a symlink in place of a
\* real directory or file, a real directory or a copy in place of a
\* symlink), and the repository is left as it was: nothing is written
\* through a symlink the destination held.
C26_ExistingEntryReplaced ==
  \A p \in RepoPaths \ { <<>> } :
    MirroredOnto(p) =>
      /\ call.result = "ok"
      /\ Dealt(Decision(before.base, args.patterns, args.skip_names, p), p)
      /\ fs.base = before.base

\* ------------------------------------------------------------------- C27
\* mirror_with_symlink_exceptions has just run a second time in a row with
\* the same repo_dir, dest_dir, patterns and skip names.
MirroredTwice ==
  /\ call.op = "exceptions"
  /\ again
  /\ calls = 2

\* C27: a second run of mirror_with_symlink_exceptions with the arguments
\* of the first returns without error, as the first did, and leaves the
\* destination and the repository as the first run left them.
C27_MirrorIdempotent ==
  MirroredTwice =>
    /\ prior = "ok"
    /\ call.result = "ok"
    /\ fs = before

\* ------------------------------------------------------------------- C28
\* apply_code_overlays has just run on a destination that
\* mirror_with_symlink_exceptions produced.
Applied == call.op = "apply" /\ prior = "ok"

\* Entry i of the map of the last call has been written, and no later
\* entry has been written over it or over a directory above it.
EntryWritten(i) ==
  /\ i \in DOMAIN call.map
  /\ call.failedAt = 0 \/ i < call.failedAt
  /\ \A j \in DOMAIN call.map :
       (j > i /\ (call.failedAt = 0 \/ j < call.failedAt)) =>
         ~IsPrefix(call.map[j].path, call.map[i].path)

\* C28: whatever the map, a call of apply_code_overlays on a destination
\* made by mirror_with_symlink_exceptions leaves every entry of the
\* repository as it was, and every file it has written is a regular file
\* of the destination directory, reached through no symlink.
C28_OverlaysKeepRepository ==
  Applied =>
    /\ fs.base = before.base
    /\ \A i \in DOMAIN call.map :
         EntryWritten(i) => Get(fs.dest, call.map[i].path).kind = "file"

\* ------------------------------------------------------------------- C29
\* The call of the completer is over.
CompleterEnded == completion.pc \in {"returned", "raised"}

\* C29: a call of experiment_completer or sandbox_completer never ends by
\* an exception, and when loading the configuration failed, the platform
\* or the Kubernetes API call failed, or the alarm of the timeout went off,
\* the call returns the empty list.
C29_CompletersNeverRaise ==
  CompleterEnded =>
    /\ completion.pc = "returned"
    /\ completion.raised = "none"
    /\ completion.failed # "none" => completion.value = <<>>

\* The alarm went off after the API had answered with names, and the call
\* has returned.
C29_Witness ==
  /\ completion.pc = "returned"
  /\ completion.timed_out
  /\ completion.names # <<>>
  /\ completion.value = <<>>

\* ------------------------------------------------------------------- C30
\* get_codebase has returned from a call with an https:// source.
ClonedFromUrl ==
  /\ codebase.called
  /\ startswith_https(codebase.source)
  /\ codebase.how = "return"

\* C30: when get_codebase returns for an https:// source, the repository
\* has been cloned into dest, the requested branch is checked out, and the
\* value returned is the commit hash of the HEAD of the clone,
\* repo.head.commit.hexsha.
C30_ReturnsHeadCommitHash ==
  ClonedFromUrl =>
    /\ codebase.dest = "cloned"
    /\ codebase.checked_out = codebase.branch
    /\ codebase.value = codebase.world.tips[codebase.branch]

\* ------------------------------------------------------------------- C31
\* The words the message is to hold.
NoCommitsYet == "has no commits yet"

\* get_codebase was called with an https:// source, the clone and the
\* checkout went well, and reading the commit of HEAD failed.
HeadWithoutCommit ==
  /\ codebase.called
  /\ startswith_https(codebase.source)
  /\ codebase.dest = "cloned"
  /\ codebase.checked_out = codebase.branch
  /\ codebase.world.clone_head # "commit"

\* C31: when get_codebase has cloned a repository whose HEAD has no commit
\* to read, the call ends by a ValueError whose message holds the words
\* "has no commits yet".
C31_NoCommitsIsValueError ==
  HeadWithoutCommit =>
    /\ codebase.how = "ValueError"
    /\ NoCommitsYet \in Range(codebase.message)

\* ------------------------------------------------------------------- C32
\* The uppercase letters among the characters of names.
Uppercase == {"B", "É"}
HasUppercase(name) == \E i \in DOMAIN name : name[i] \in Uppercase
EndsWithDash(name) == name # <<>> /\ name[Len(name)] = "-"

\* C32: the experiment name of a Runtime is None when no name is given
\* (exp_name left out, or empty); a name holding an uppercase letter raises
\* ValueError; any other name is kept unchanged when it does not end with
\* "-", and is followed by a generated suffix of seven characters, none of
\* them uppercase, when it does.
C32_ExperimentName ==
  runtime.made =>
    IF ~runtime.given \/ runtime.exp_name = <<>>
    THEN runtime.how = "return" /\ runtime.none
    ELSE IF HasUppercase(runtime.exp_name)
    THEN runtime.how = "ValueError"
    ELSE /\ runtime.how = "return" /\ ~runtime.none
         /\ IF EndsWithDash(runtime.exp_name)
            THEN /\ Len(runtime.text) = Len(runtime.exp_name) + 7
                 /\ SubSeq(runtime.text, 1, Len(runtime.exp_name))
                      = runtime.exp_name
                 /\ ~HasUppercase(runtime.text)
            ELSE runtime.text = runtime.exp_name

\* A Runtime has been made from a lowercase name that ends with "-", and
\* its experiment name is longer than the name.
C32_Witness ==
  /\ runtime.made /\ runtime.given
  /\ runtime.exp_name = <<"a", "1", "-">>
  /\ runtime.how = "return"
  /\ Len(runtime.text) > 3

\* ------------------------------------------------------------------- C33
RECURSIVE DerivedFromBase(_, _)
\* node, the entry at path p of the destination, comes from the base tree
\* and the targets of the last call: it is a symlink to the base entry at
\* p, or a real directory where the base tree has one on the way to a
\* target (or at it), holding only such entries.
DerivedFromBase(node, p) ==
  \/ node = Link(p) /\ Get(fs.base, p).kind # "none"
  \/ /\ node.kind = "dir"
     /\ Get(fs.base, p).kind = "dir"
     /\ \E t \in call.targets : IsPrefix(p, t)
     /\ \A n \in DOMAIN node.kids :
          DerivedFromBase(node.kids[n], p \o <<n>>)

\* mirror_overlay has just run on a destination that held entries.
MirroredOverEntries ==
  /\ call.op = "mirror"
  /\ DOMAIN before.dest.kids # {}

\* C33: whatever the destination directory held before mirror_overlay is
\* called, the call returns without error, leaves the base tree as it was,
\* and the destination then holds only entries that come from the base
\* tree and the targets of this call: no regular file and no entry of an
\* overlay built for other targets is left.
C33_MirrorClearsDestination ==
  MirroredOverEntries =>
    /\ call.result = "ok"
    /\ fs.base = before.base
    /\ fs.dest.kind = "dir"
    /\ \A n \in DOMAIN fs.dest.kids : DerivedFromBase(fs.dest.kids[n], <<n>>)

\* mirror_overlay has run on a destination that held a regular file and a
\* real directory with a file in it, written by materialize_overrides.
C33_Witness ==
  /\ MirroredOverEntries
  /\ \E n \in DOMAIN before.dest.kids : before.dest.kids[n].kind = "file"
  /\ \E n \in DOMAIN before.dest.kids :
       /\ before.dest.kids[n].kind = "dir"
       /\ \E k \in DOMAIN before.dest.kids[n].kids :
            before.dest.kids[n].kids[k].kind = "file"
  /\ call.result = "ok"

\* ------------------------------------------------------------------- C34
\* Target t lies in a directory the base tree does not have.
ParentMissing(base, t) == Len(t) > 1 /\ Get(base, Front(t)).kind = "none"

\* The overlay mirror_overlay builds for the base tree of fs when t is not
\* listed among the targets T.
WithoutTarget(f, T, t) == mirror_overlay(f, T \ {t}).fs

\* mirror_overlay has just run with a target whose parent is missing.
MirroredWithHole(t) ==
  /\ call.op = "mirror"
  /\ t \in call.targets
  /\ ParentMissing(before.base, t)

\* materialize_overrides has just run after such a call and has come to
\* the entry of t.
MaterializedHole(t) ==
  /\ call.op = "materialize"
  /\ ParentMissing(before.base, t)
  /\ \E i \in DOMAIN call.map :
       /\ call.map[i].path = t
       /\ call.failedAt = 0 \/ i <= call.failedAt

\* The file of target t has been written in the destination itself, below
\* real directories.
WrittenInDestination(t) ==
  /\ \A i \in DOMAIN call.map : call.map[i].path = t => call.failedAt # i
  /\ fs.base = before.base
  /\ Get(fs.dest, t).kind = "file"
  /\ \A k \in 1..(Len(t) - 1) : Get(fs.dest, SubSeq(t, 1, k)).kind = "dir"

\* Path p reads the same in f and in g: the same kind of entry, and for a
\* file the same file.
SameRead(f, g, p) ==
  /\ Stat(f, p).kind = Stat(g, p).kind
  /\ Stat(f, p).kind = "file" => Stat(f, p) = Stat(g, p)

\* C34 (as stated): mirror_overlay given a target whose parent directory is missing in
\* the base tree returns without error, makes nothing at the target nor at
\* a missing directory above it, and builds the rest of the overlay as if
\* the target were not listed: every path reads as it does in the overlay
\* built without that target; materialize_overrides then makes the missing
\* directories and the file in the destination.
C34_HoleAsIfNotListed ==
  \A t \in DeepPaths :
    /\ MirroredWithHole(t) =>
         /\ call.result = "ok"
         /\ fs.base = before.base
         /\ \A k \in 1..Len(t) :
              Get(fs.base, SubSeq(t, 1, k)).kind = "none"
                => Get(fs.dest, SubSeq(t, 1, k)).kind = "none"
         /\ \A p \in PlainPaths :
              SameRead(fs, WithoutTarget(before, call.targets, t), p)
    /\ MaterializedHole(t) => WrittenInDestination(t)

\* The base files lying on the way to target t.
FilesAbove(base, t) ==
  { SubSeq(t, 1, k) : k \in { j \in 1..(Len(t) - 1) :
                                Get(base, SubSeq(t, 1, j)).kind = "file" } }

\* C34 (amended): mirror_overlay given a target whose parent directory is
\* missing in the base tree returns without error and makes nothing at the
\* target nor at a missing directory above it; a base file lying on the
\* way to the target is left out of the overlay, and every path that is
\* not at or below such a file reads as it does in the overlay built
\* without that target; materialize_overrides then makes the missing
\* directories and the file in the destination.
C34_HoleSkippedAtItsLevel ==
  \A t \in DeepPaths :
    /\ MirroredWithHole(t) =>
         /\ call.result = "ok"
         /\ fs.base = before.base
         /\ \A k \in 1..Len(t) :
              Get(fs.base, SubSeq(t, 1, k)).kind = "none"
                => Get(fs.dest, SubSeq(t, 1, k)).kind = "none"
         /\ \A q \in FilesAbove(fs.base, t) : Get(fs.dest, q).kind = "none"
         /\ \A p \in PlainPaths :
              (\A q \in FilesAbove(fs.base, t) : ~IsPrefix(q, p))
                => SameRead(fs, WithoutTarget(before, call.targets, t), p)
    /\ MaterializedHole(t) => WrittenInDestination(t)

\* materialize_overrides has written the file of a target of three
\* components whose parent is missing in a directory the base tree has.
C34_Witness ==
  /\ MaterializedHole(<<"a", "b", "a">>)
  /\ Get(fs.base, <<"a">>).kind = "dir"
  /\ DOMAIN Get(fs.base, <<"a">>).kids # {}
  /\ WrittenInDestination(<<"a", "b", "a">>)

\* ------------------------------------------------------------------- C35
\* The entry point of the job just executed failed, by a status other than
\* zero or by a signal, and left no checkpoint.json at the session root.
FailedWithoutCheckpoint ==
  /\ EntryPointDue
  /\ proc.exit \in {"nonzero", "signal"}
  /\ ~proc.checkpoint.exists

\* C35 (as stated): when the entry point fails and no checkpoint file is at
\* the session root, execute_python_function raises the failure of the
\* entry point again, as a FunctionExecutionError whose text is "Execution
\* failed" followed by the description of that failure, and not the failure
\* of the checkpoint read.
C35_OriginalFailurePropagated ==
  FailedWithoutCheckpoint =>
    /\ ended.how = "FunctionExecutionError"
    /\ ended.message =
         <<"Execution failed">> \o
           run_command(RunCommandParams, proc.exit, proc.stdout).message

\* ------------------------------------------------------------------- C36
\* The number a value of a message stands for is the fraction num/den.
SameNumber(x, y) == x.num * y.den = y.num * x.den

\* The integer nearest to zero from the number x stands for.
Whole(x) == x.num \div x.den

\* C36: for a run message the executor is called with the entry point
\* evaluator.py when evaluation_script is missing, with no memory ceiling
\* (None) when memory_limit is missing, with no positional arguments when
\* args is missing, and with the fields as sent otherwise; the timeout it
\* gets is a float of the value sent and the memory limit, when one is set,
\* an int; a value that cannot be converted raises before the executor is
\* called.
C36_JobFieldsDefaults ==
  taken.done =>
    LET m == taken.message
        f == taken.fields
    IN /\ f.how = "called" =>
            /\ f.evaluation_script =
                 IF m.evaluation_script.given THEN m.evaluation_script.value
                 ELSE <<"evaluator.py">>
            /\ f.args = IF m.args.given THEN m.args.value ELSE <<>>
            /\ ~m.memory_limit.given => f.memory_limit = PyNone
            /\ f.timeout.t = "float"
            /\ SameNumber(f.timeout, m.timeout.value)
            /\ (m.memory_limit.given /\ m.memory_limit.value # PyNone) =>
                 /\ f.memory_limit.t = "int"
                 /\ f.memory_limit.num = Whole(m.memory_limit.value)
       /\ f.how # "called" =>
            \/ ~m.timeout.given
            \/ m.timeout.value.t \in {"null", "str_word"}
            \/ m.memory_limit.value.t \in {"str_word", "str_float"}

\* The executor was called for a message that has a timeout and a memory
\* limit that is no integer, and nothing else.
C36_Witness ==
  /\ taken.done /\ taken.fields.how = "called"
  /\ taken.message.timeout = Given(Value("str_float", 5, 2))
  /\ taken.message.memory_limit = Given(Value("float", 5, 2))
  /\ ~taken.message.args.given
  /\ ~taken.message.evaluation_script.given
  /\ taken.fields.memory_limit = Value("int", 2, 1)

\* ------------------------------------------------------------------- C37
\* Delay d is initial_delay * delay_multiplier^k.
IsBackoff(d, k) ==
  d.num * initial_delay.den * (delay_multiplier.den ^ k)
    = initial_delay.num * (delay_multiplier.num ^ k) * d.den

\* C37: in every call of send_to_server, whatever the failures of the calls
\* before it, the delay is initial_delay before the first failure and
\* initial_delay * delay_multiplier^k after k failures of that call, and the
\* call has slept initial_delay * delay_multiplier^(i-1) after its i-th
\* failure: no failure sets the delay back.
C37_BackoffPerStep ==
  /\ IsBackoff(delay, attempt)
  /\ attempt = 0 => delay = initial_delay
  /\ Len(waits) = attempt
  /\ \A i \in 1..Len(waits) : IsBackoff(waits[i], i - 1)

\* The second call of send_to_server has failed twice, after a first call
\* that failed too.
C37_Witness ==
  /\ step = 2 /\ pc = "AwaitingResponse"
  /\ attempt = 2
  /\ requests > step + attempt
  /\ delay_multiplier = Fraction(3, 2)
  /\ delay = Fraction(9, 4)

\* ------------------------------------------------------------------- C38
\* The session of the job being executed has been built and its entry
\* point not yet run.
SessionBuilt ==
  /\ call.op = "execute" /\ call.result = "ok"
  /\ execpc = "exit"

\* cat checkpoint.json at the session root would print a file.
CheckpointReadable == Stat(fs, <<"checkpoint.json">>).kind = "file"

\* C38 (as stated): a job ends with a result marked Checkpoint only if its
\* own process wrote checkpoint.json; the session of a job, when built,
\* has no readable checkpoint.json at its root, none coming from the base
\* repository through the overlay.
C38_CheckpointIsTheJobsOwn ==
  /\ ended.how = "checkpoint" => proc.checkpoint.exists
  /\ SessionBuilt => ~CheckpointReadable

\* ------------------------------------------------------------------- C39
\* The last call of the executor raised a SubprocessError.
RaisedSubprocessError == ended.how \in SubprocessErrors

\* C39: when the executor raises a SubprocessError, main_loop does not
\* abort: its result has output null and the metainfo "Execution failed:
\* Memory limit exceeded" exactly when the text of the error is "Exception
\* occurred in preexec_fn.", "Internal server error" for every other text;
\* the result is sent in the next request and main_loop goes on with the
\* action answered.
C39_SubprocessErrorReported ==
  RaisedSubprocessError =>
    /\ pc # "Aborted"
    /\ result.kind = "dict" /\ result.output = "None"
    /\ result.metainfo =
         IF ended.message = <<"Exception occurred in preexec_fn.">>
         THEN <<"Execution failed: Memory limit exceeded">>
         ELSE <<"Internal server error">>
    /\ request.result = result
    /\ requests >= 2
    /\ pc = "AwaitingResponse" => request = EchoRequest(response, result)

\* A job ended in the SubprocessError of preexec_fn, its result was sent
\* and the run message answered is being executed.
C39_Witness ==
  /\ ended = Ended("SubprocessError", "", PreexecText)
  /\ result.metainfo = <<"Execution failed: Memory limit exceeded">>
  /\ jobs = 2 /\ pc = "Running" /\ execpc = "body"
  /\ requests >= 2
====
